---- MODULE Spec2Model ----
(***************************************************************************)
(* The bridle / test_harness process-supervision harness:                  *)
(*   - the JSONL event codec, read_events and resolve_events (_schema.py)  *)
(*   - monitor_subprocess, _read_new_events, _kill_and_record (_monitor.py)*)
(*   - run(): read, resolve, upload to the backends, return (_harness.py)  *)
(*   - the pytest plugin that writes the events (_plugin.py)               *)
(* Time is counted in whole seconds.  The log file is a sequence of        *)
(* abstract bytes: every record is encoded as two content bytes (its head  *)
(* and its tail) followed by one newline byte, so that offsets, partial    *)
(* lines and line splitting behave as they do on the real file.            *)
(***************************************************************************)
EXTENDS Integers, Sequences, FiniteSets, TLC

VARIABLES
    test_timeout_sec,   \* argument of monitor_subprocess (NoLimit for None)
    total_timeout_sec,  \* argument of monitor_subprocess (NoLimit for None)
    poll_interval,      \* argument of monitor_subprocess
    clock,              \* clock.monotonic()
    log,                \* the bytes of the results file
    childAlive,         \* the child process is still running
    returncode,         \* the child's exit status once it has ended
    pending,            \* rest of a record the child has begun to write
    progress,           \* per unit: 0 nothing, 1 Started, 2 Finished written
    pc,                 \* where run() / monitor_subprocess stands
    run_start,          \* local of monitor_subprocess
    file_offset,        \* local of monitor_subprocess
    active_tests,       \* local of monitor_subprocess (insertion-ordered dict)
    now,                \* local of monitor_subprocess
    timeout,            \* the TimeoutResult built by the loop (NoTimeout: None)
    exit_code,          \* the code monitor_subprocess returns
    waited,             \* how proc.wait() ended in _kill_and_record
    events,             \* local of run(): what read_events returned
    resolved,           \* local of run(): what resolve_events returned
    log_exists,         \* the results file exists
    protocol,           \* where pytest stands in the run-test protocol
    backends,           \* local of run(): the names of the backends
    uploaded,           \* the upload() calls run() has made, with their ends
    returned,           \* what run() returned (read when pc = "returned")
    credential,         \* the backend's token / URL is set in the environment
    requests            \* the _post_batch calls made, with their ends

vars == <<test_timeout_sec, total_timeout_sec, poll_interval, clock, log, childAlive,
          returncode, pending, progress, pc, run_start, file_offset, active_tests,
          now, timeout, exit_code, waited, events, resolved, log_exists, protocol,
          backends, uploaded, returned, credential, requests>>
configVars == <<test_timeout_sec, total_timeout_sec, poll_interval>>
childVars == <<childAlive, returncode, pending, progress>>
monitorVars == <<run_start, file_offset, active_tests, now, timeout, exit_code, waited>>
harnessVars == <<events, resolved>>
pluginVars == <<protocol>>
uploadVars == <<backends, uploaded, returned, credential, requests>>

\* ---------------------------------------------------------------- bounds
\* The clock never runs past MaxClock (guard of the sleep).
MaxClock == 6
\* Longest event list handed to resolve_events under SpecResolve.
MaxEvents == 4

\* Unit ids (pytest nodeids) the child may run.
Units == {"a", "b"}
\* The absent value of an optional float argument (None).
NoLimit == 0 - 1
\* The arguments <<test_timeout_sec, total_timeout_sec, poll_interval>> of
\* monitor_subprocess: every combination of no / a per-test limit of 3, no /
\* a total limit of 4 and an interval of 1 or 2, and the arguments of
\* test_slow_test_is_killed and test_total_timeout_kills.
Configs ==
    ({NoLimit, 3} \X {NoLimit, 4} \X {1, 2}) \cup {<<5, NoLimit, 2>>, <<NoLimit, 3, 1>>}
\* Exit codes of a child that ends by itself.
ExitCodes == {0, 1}
\* Seconds the clock may advance while proc.wait() blocks and succeeds.
WaitDelays == {0, 1}
\* How many bytes of a 3-byte record line reach the file in the child's first
\* write: 1 (the line is cut inside the record) or 3 (the whole line).
SplitPoints == {1, 3}
\* Fallback exit code of _kill_and_record; also Popen's code of a child
\* ended by SIGKILL.
KillSentinel == -9
\* timeout= argument of proc.wait().
GraceSec == 5

\* report.start / time.time() as the child writes them: wall-clock seconds,
\* unrelated to the monitor's monotonic clock.
WallTime(u) == IF u = "a" THEN 100 ELSE 200

\* ------------------------------------------------------------ the events
NoneStr == "None"
NoRepr == [text |-> NoneStr, limit |-> 0, elapsed |-> 0]
CRASH_REPR == [text |-> "Test crashed (no result received)", limit |-> 0, elapsed |-> 0]
test_timeout_repr(limit, elapsed) ==
    [text |-> "per-test timeout", limit |-> limit, elapsed |-> elapsed]
total_timeout_repr(limit, elapsed) ==
    [text |-> "total run exceeded timeout", limit |-> limit, elapsed |-> elapsed]

LocationOf(u) == <<"test.py", 10, u>>
NoLocation == <<>>

TestStarted(nodeid, start, location) ==
    [type |-> "test_started", nodeid |-> nodeid, start |-> start, location |-> location]

TestFinished(nodeid, outcome, when, duration, start, stop, location, longrepr) ==
    [type |-> "test_finished", nodeid |-> nodeid, outcome |-> outcome, when |-> when,
     duration |-> duration, start |-> start, stop |-> stop, location |-> location,
     longrepr |-> longrepr]

isStarted(ev) == ev.type = "test_started"
isFinished(ev) == ev.type = "test_finished"

\* -------------------------------------------------------------- the codec
\* JSON values: what the text of a record holds once parsed.
JStr(x) == [json |-> "string", v |-> x]
JNum(n) == [json |-> "number", v |-> n]
JArr(t) == [json |-> "array", v |-> t]
JNull == [json |-> "null", v |-> <<>>]

\* The values of the Outcome enum, and None for the line of a location.
OutcomeValues == {"passed", "failed", "skipped", "error", "xfailed", "xpassed"}
NoLine == 0 - 1

\* The JSON of the optional fields: None becomes null, a location tuple an
\* array of three, a longrepr a string.
location_to_json(loc) ==
    IF loc = NoLocation THEN JNull
    ELSE JArr(<<JStr(loc[1]), IF loc[2] = NoLine THEN JNull ELSE JNum(loc[2]), JStr(loc[3])>>)
longrepr_to_json(r) == IF r = NoRepr THEN JNull ELSE JStr(r)

\* The JSON object of an event; the discriminator is its "type" member.
to_json(ev) ==
    IF isStarted(ev)
    THEN [type |-> ev.type, nodeid |-> JStr(ev.nodeid), start |-> JNum(ev.start),
          location |-> location_to_json(ev.location)]
    ELSE [type |-> ev.type, nodeid |-> JStr(ev.nodeid), outcome |-> JStr(ev.outcome),
          when |-> JStr(ev.when), duration |-> JNum(ev.duration),
          start |-> JNum(ev.start), stop |-> JNum(ev.stop),
          location |-> location_to_json(ev.location),
          longrepr |-> longrepr_to_json(ev.longrepr)]

\* Validation of the members of a JSON object against the field types.
HasKind(obj, name, kind) == name \in DOMAIN obj /\ obj[name].json = kind
ValidLocation(obj) ==
    "location" \in DOMAIN obj =>
        \/ obj.location.json = "null"
        \/ /\ obj.location.json = "array"
           /\ Len(obj.location.v) = 3
           /\ obj.location.v[1].json = "string"
           /\ obj.location.v[2].json \in {"number", "null"}
           /\ obj.location.v[3].json = "string"
ValidLongrepr(obj) ==
    "longrepr" \in DOMAIN obj => obj.longrepr.json \in {"string", "null"}

\* The discriminated union: the "type" member chooses the model; an object
\* without it, or with another tag, is no TestEvent.
ValidObject(obj) ==
    /\ "type" \in DOMAIN obj
    /\ \/ /\ obj.type = "test_started"
          /\ HasKind(obj, "nodeid", "string")
          /\ HasKind(obj, "start", "number")
          /\ ValidLocation(obj)
       \/ /\ obj.type = "test_finished"
          /\ HasKind(obj, "nodeid", "string")
          /\ HasKind(obj, "outcome", "string")
          /\ obj.outcome.v \in OutcomeValues
          /\ HasKind(obj, "when", "string")
          /\ HasKind(obj, "duration", "number")
          /\ HasKind(obj, "start", "number")
          /\ HasKind(obj, "stop", "number")
          /\ ValidLocation(obj)
          /\ ValidLongrepr(obj)

location_from_json(obj) ==
    IF "location" \notin DOMAIN obj THEN NoLocation
    ELSE IF obj.location.json = "null" THEN NoLocation
    ELSE <<obj.location.v[1].v,
           IF obj.location.v[2].json = "null" THEN NoLine ELSE obj.location.v[2].v,
           obj.location.v[3].v>>

\* A decoder that reads a null longrepr as an empty string.
longrepr_from_jsonNullIsEmpty(obj) ==
    IF "longrepr" \notin DOMAIN obj THEN NoRepr
    ELSE IF obj.longrepr.json = "null" THEN [text |-> "", limit |-> 0, elapsed |-> 0]
    ELSE obj.longrepr.v

longrepr_from_json(obj) ==
    IF "longrepr" \notin DOMAIN obj THEN NoRepr
    ELSE IF obj.longrepr.json = "null" THEN NoRepr
    ELSE obj.longrepr.v

\* The event a valid JSON object stands for.
from_json(obj) ==
    IF obj.type = "test_started"
    THEN TestStarted(obj.nodeid.v, obj.start.v, location_from_json(obj))
    ELSE TestFinished(obj.nodeid.v, obj.outcome.v, obj.when.v, obj.duration.v,
                      obj.start.v, obj.stop.v, location_from_json(obj),
                      longrepr_from_json(obj))

\* A byte of the file: the head or the tail of the text of a JSON object, or
\* the newline.
NoEvent == [type |-> "none"]
NL == [ev |-> NoEvent, part |-> "newline"]
Byte(obj, part) == [ev |-> obj, part |-> part]

\* model_dump_json(): the content bytes of one record, without the newline.
model_dump_json(ev) == <<Byte(to_json(ev), "head"), Byte(to_json(ev), "tail")>>

\* The record as written to the file: content, then the newline.
EncodeLine(ev) == model_dump_json(ev) \o <<NL>>

\* A decoder that takes any object with a "type" member for an event.
DecodableAnyType(line) ==
    /\ Len(line) = 2
    /\ line[1].part = "head" /\ line[2].part = "tail"
    /\ line[2].ev = line[1].ev
    /\ "type" \in DOMAIN line[1].ev

\* _event_adapter.validate_json(line): a line decodes iff it is exactly the
\* text of one JSON object, in order, that validates as a TestEvent;
\* anything else raises.
Decodable(line) ==
    /\ Len(line) = 2
    /\ line[1].part = "head" /\ line[2].part = "tail"
    /\ line[2].ev = line[1].ev
    /\ ValidObject(line[1].ev)
validate_json(line) == from_json(line[1].ev)

\* str.splitlines(): the pieces between newlines; a last piece without a
\* newline is a line too, an empty last piece is not.
RECURSIVE splitlines_from(_, _)
splitlines_from(data, cur) ==
    IF data = <<>> THEN (IF cur = <<>> THEN <<>> ELSE <<cur>>)
    ELSE IF Head(data) = NL THEN <<cur>> \o splitlines_from(Tail(data), <<>>)
    ELSE splitlines_from(Tail(data), Append(cur, Head(data)))
splitlines(data) == splitlines_from(data, <<>>)

\* A whitespace byte, and str.strip(): the line without the whitespace at
\* its two ends.
SP == [ev |-> NoEvent, part |-> "space"]
RECURSIVE lstrip(_)
lstrip(line) == IF line # <<>> /\ Head(line) = SP THEN lstrip(Tail(line)) ELSE line
RECURSIVE rstrip(_)
rstrip(line) ==
    IF line # <<>> /\ line[Len(line)] = SP
    THEN rstrip(SubSeq(line, 1, Len(line) - 1))
    ELSE line
strip(line) == rstrip(lstrip(line))

\* A loop over the lines that ends at the first line it cannot decode.
RECURSIVE decode_linesStopAtBad(_)
decode_linesStopAtBad(lines) ==
    IF lines = <<>> THEN <<>>
    ELSE LET line == strip(Head(lines))
         IN IF line = <<>> THEN decode_linesStopAtBad(Tail(lines))
            ELSE IF Decodable(line)
                 THEN <<validate_json(line)>> \o decode_linesStopAtBad(Tail(lines))
                 ELSE <<>>

\* The loop over the lines shared by read_events and _read_new_events: the
\* line is stripped; blank lines are skipped, undecodable lines are skipped,
\* the rest are decoded.
RECURSIVE decode_lines(_)
decode_lines(lines) ==
    IF lines = <<>> THEN <<>>
    ELSE LET line == strip(Head(lines))
             rest == decode_lines(Tail(lines))
         IN IF line = <<>> THEN rest
            ELSE IF Decodable(line) THEN <<validate_json(line)>> \o rest
            ELSE rest

\* read_events(path) on an existing file holding `data`.
read_events(data) == decode_lines(splitlines(data))

\* read_events(path): a path without a file gives the empty list.
read_events_path(exists, data) == IF ~exists THEN <<>> ELSE read_events(data)

\* ----------------------------------------------------------- the resolver
finished_nodeids(evs) == {evs[i].nodeid : i \in {j \in DOMAIN evs : isFinished(evs[j])}}

\* A crash record that forgets the location of its TestStarted.
CrashFinishedNoLocation(ev) ==
    TestFinished(ev.nodeid, "failed", "call", 0, ev.start, ev.start, NoLocation, CRASH_REPR)

\* The TestFinished that resolve_events makes of an unmatched TestStarted.
CrashFinished(ev) ==
    TestFinished(ev.nodeid, "failed", "call", 0, ev.start, ev.start, ev.location, CRASH_REPR)

\* A resolver that forgets the membership test of its second pass.
ResolveOneNoCheck(ev, fin) ==
    IF isFinished(ev) THEN <<ev>> ELSE <<CrashFinished(ev)>>

\* A second loop that passes an unmatched TestStarted on next to its crash
\* record.
ResolveOneKeepsStarted(ev, fin) ==
    IF isFinished(ev) THEN <<ev>>
    ELSE IF isStarted(ev) /\ ev.nodeid \notin fin THEN <<ev, CrashFinished(ev)>>
    ELSE <<>>

\* One iteration of the second loop of resolve_events: what `ev` appends.
ResolveOne(ev, fin) ==
    IF isFinished(ev) THEN <<ev>>
    ELSE IF isStarted(ev) /\ ev.nodeid \notin fin THEN <<CrashFinished(ev)>>
    ELSE <<>>

\* A second loop that puts each result in front of the list.
RECURSIVE resolve_loopPrepend(_, _)
resolve_loopPrepend(evs, fin) ==
    IF evs = <<>> THEN <<>>
    ELSE resolve_loopPrepend(Tail(evs), fin) \o ResolveOne(Head(evs), fin)

RECURSIVE resolve_loop(_, _)
resolve_loop(evs, fin) ==
    IF evs = <<>> THEN <<>>
    ELSE ResolveOne(Head(evs), fin) \o resolve_loop(Tail(evs), fin)

\* A resolver that passes on only the TestFinished of units it saw start.
resolve_eventsMatchedOnly(evs) ==
    resolve_loop(
        SelectSeq(evs, LAMBDA e : isStarted(e) \/ \E j \in DOMAIN evs :
                                    isStarted(evs[j]) /\ evs[j].nodeid = e.nodeid),
        finished_nodeids(evs))

\* A resolver that matches a TestStarted only with a TestFinished that comes
\* after it, so that each attempt of a unit is tracked on its own.
RECURSIVE resolve_eventsLaterOnly(_)
resolve_eventsLaterOnly(evs) ==
    IF evs = <<>> THEN <<>>
    ELSE ResolveOne(Head(evs), finished_nodeids(Tail(evs)))
             \o resolve_eventsLaterOnly(Tail(evs))

resolve_events(evs) == resolve_loop(evs, finished_nodeids(evs))

\* ------------------------------------------------------------ the monitor
\* TimeoutResult; NoTimeout stands for None.
TimeoutResult(kind, nodeid, limit, elapsed) ==
    [kind |-> kind, nodeid |-> nodeid, limit |-> limit, elapsed |-> elapsed]
NoTimeout == TimeoutResult("none", NoneStr, 0, 0)

\* active_tests is an insertion-ordered dict: a sequence of entries.
\* An entry that takes the event's own start time for its instant.
ActiveEntryEventStart(ev, mono) ==
    [nodeid |-> ev.nodeid, started |-> ev, mono_start |-> ev.start]

ActiveEntry(ev, mono) == [nodeid |-> ev.nodeid, started |-> ev, mono_start |-> mono]
ActiveKeys(active) == {active[i].nodeid : i \in DOMAIN active}

\* An insertion that leaves the entry of a present key as it is (setdefault).
dict_setKeepsFirst(active, entry) ==
    IF entry.nodeid \in ActiveKeys(active) THEN active ELSE Append(active, entry)

\* active_tests[key] = value: a present key keeps its place, a new one is last.
dict_set(active, entry) ==
    IF entry.nodeid \in ActiveKeys(active)
    THEN [i \in DOMAIN active |->
            IF active[i].nodeid = entry.nodeid THEN entry ELSE active[i]]
    ELSE Append(active, entry)

\* A pop that leaves the key in the map.
dict_popKeeps(active, key) == active

\* active_tests.pop(key, None)
dict_pop(active, key) == SelectSeq(active, LAMBDA e : e.nodeid # key)

\* The isinstance dispatch of _read_new_events for one decoded event.
apply_event(active, ev, clk) ==
    IF isStarted(ev) THEN dict_set(active, ActiveEntry(ev, clk))
    ELSE IF isFinished(ev) THEN dict_pop(active, ev.nodeid)
    ELSE active

RECURSIVE apply_events(_, _, _)
apply_events(active, evs, clk) ==
    IF evs = <<>> THEN active
    ELSE apply_events(apply_event(active, Head(evs), clk), Tail(evs), clk)

\* A tail that hands back the offset it was given.
_read_new_eventsKeepsOffset(data, offset, active, clk) ==
    IF Len(data) <= offset
    THEN [offset |-> offset, active |-> active]
    ELSE LET new_bytes == SubSeq(data, offset + 1, Len(data))
         IN [offset |-> offset,
             active |-> apply_events(active, decode_lines(splitlines(new_bytes)), clk)]

\* A tail that decodes the file from its first byte every time.
_read_new_eventsFromStart(data, offset, active, clk) ==
    IF Len(data) <= offset
    THEN [offset |-> offset, active |-> active]
    ELSE [offset |-> Len(data),
          active |-> apply_events(active, decode_lines(splitlines(data)), clk)]

\* _read_new_events on an existing file holding `data`: the new offset and
\* the updated active_tests.
_read_new_events(data, offset, active, clk) ==
    IF Len(data) <= offset
    THEN [offset |-> offset, active |-> active]
    ELSE LET new_bytes == SubSeq(data, offset + 1, Len(data))
         IN [offset |-> Len(data),
             active |-> apply_events(active, decode_lines(splitlines(new_bytes)), clk)]

\* _read_new_events(path, ...): FileNotFoundError is caught and the offset
\* handed back, with active_tests untouched.
TailPath(exists, data, offset, active, clk) ==
    IF ~exists THEN [offset |-> offset, active |-> active]
    ELSE _read_new_events(data, offset, active, clk)

\* Comparisons that let a unit, or the run, sit exactly on its limit.
TestExpiredStrict(elapsed, limit) == elapsed > limit
TotalExpiredStrict(elapsed, limit) == elapsed > limit

\* `elapsed >= test_timeout_sec` and `total_elapsed >= total_timeout_sec`.
TestExpired(elapsed, limit) == elapsed >= limit
TotalExpired(elapsed, limit) == elapsed >= limit

\* The per-test scan: the indexes of the entries that have reached the limit.
ExpiredIndexes(active, t, limit) ==
    {i \in DOMAIN active : TestExpired(t - active[i].mono_start, limit)}
Min(S) == CHOOSE x \in S : \A y \in S : x <= y

\* The two checks in the other order: the total limit first.
CheckTimeoutsTotalFirst(active, t, start, test_limit, total_limit) ==
    IF total_limit # NoLimit /\ TotalExpired(t - start, total_limit)
    THEN TimeoutResult("total", NoneStr, total_limit, t - start)
    ELSE IF test_limit # NoLimit /\ ExpiredIndexes(active, t, test_limit) # {}
    THEN LET e == active[Min(ExpiredIndexes(active, t, test_limit))]
         IN TimeoutResult("test", e.nodeid, test_limit, t - e.mono_start)
    ELSE NoTimeout

\* Timeout checks that compare against an absent limit as if it were a number.
CheckTimeoutsAbsentIsNumber(active, t, start, test_limit, total_limit) ==
    IF ExpiredIndexes(active, t, test_limit) # {}
    THEN LET e == active[Min(ExpiredIndexes(active, t, test_limit))]
         IN TimeoutResult("test", e.nodeid, test_limit, t - e.mono_start)
    ELSE IF TotalExpired(t - start, total_limit)
    THEN TimeoutResult("total", NoneStr, total_limit, t - start)
    ELSE NoTimeout

\* A total check whose report carries the id of the first active unit.
CheckTimeoutsTotalNamesUnit(active, t, start, test_limit, total_limit) ==
    IF test_limit # NoLimit /\ ExpiredIndexes(active, t, test_limit) # {}
    THEN LET e == active[Min(ExpiredIndexes(active, t, test_limit))]
         IN TimeoutResult("test", e.nodeid, test_limit, t - e.mono_start)
    ELSE IF total_limit # NoLimit /\ TotalExpired(t - start, total_limit)
    THEN TimeoutResult("total", IF active = <<>> THEN NoneStr ELSE active[1].nodeid,
                       total_limit, t - start)
    ELSE NoTimeout

\* A per-test scan that keeps going and reports the last unit over the limit.
CheckTimeoutsLastExpired(active, t, start, test_limit, total_limit) ==
    IF test_limit # NoLimit /\ ExpiredIndexes(active, t, test_limit) # {}
    THEN LET last == CHOOSE i \in ExpiredIndexes(active, t, test_limit) :
                         \A j \in ExpiredIndexes(active, t, test_limit) : j <= i
             e == active[last]
         IN TimeoutResult("test", e.nodeid, test_limit, t - e.mono_start)
    ELSE IF total_limit # NoLimit /\ TotalExpired(t - start, total_limit)
    THEN TimeoutResult("total", NoneStr, total_limit, t - start)
    ELSE NoTimeout

\* The two timeout checks of one loop iteration: the TimeoutResult that is
\* handed to _kill_and_record, or NoTimeout when the loop goes on to sleep.
CheckTimeouts(active, t, start, test_limit, total_limit) ==
    IF test_limit # NoLimit /\ ExpiredIndexes(active, t, test_limit) # {}
    THEN LET e == active[Min(ExpiredIndexes(active, t, test_limit))]
         IN TimeoutResult("test", e.nodeid, test_limit, t - e.mono_start)
    ELSE IF total_limit # NoLimit /\ TotalExpired(t - start, total_limit)
    THEN TimeoutResult("total", NoneStr, total_limit, t - start)
    ELSE NoTimeout

\* A record that reuses the elapsed time of the TimeoutResult instead of
\* reading the clock after the wait.
SynthFinishedLoopElapsed(e, t, to) ==
    LET elapsed == to.elapsed
        longrepr == IF to.kind = "test" THEN test_timeout_repr(to.limit, elapsed)
                    ELSE total_timeout_repr(to.limit, elapsed)
    IN TestFinished(e.nodeid, "failed", "call", elapsed, e.started.start,
                    e.started.start + elapsed, e.started.location, longrepr)

\* The TestFinished that _kill_and_record writes for one active entry.
SynthFinished(e, t, to) ==
    LET elapsed == t - e.mono_start
        longrepr == IF to.kind = "test" THEN test_timeout_repr(to.limit, elapsed)
                    ELSE total_timeout_repr(to.limit, elapsed)
    IN TestFinished(e.nodeid, "failed", "call", elapsed, e.started.start,
                    e.started.start + elapsed, e.started.location, longrepr)

\* append_event(path, event): the record and its newline go to the end.
append_event(data, ev) == data \o EncodeLine(ev)

\* The for loop of _kill_and_record over active_tests.items().
RECURSIVE record_all(_, _, _, _)
record_all(data, active, t, to) ==
    IF active = <<>> THEN data
    ELSE record_all(append_event(data, SynthFinished(Head(active), t, to)),
                    Tail(active), t, to)

\* ------------------------------------------------------------- the child
\* The record the plugin writes next for unit u: its Started, then its
\* Finished (a passed call phase of one second).
ChildEvent(u) ==
    IF progress[u] = 0
    THEN TestStarted(u, WallTime(u), LocationOf(u))
    ELSE TestFinished(u, "passed", "call", 1, WallTime(u), WallTime(u) + 1,
                      LocationOf(u), NoRepr)

\* pytest_sessionstart in the child: open() creates the results file when
\* the caller has not.
ChildCreate ==
    /\ pc \in {"poll", "tail", "kill"}
    /\ childAlive /\ ~log_exists
    /\ log_exists' = TRUE
    /\ log' = <<>>
    /\ UNCHANGED <<configVars, pluginVars, uploadVars, clock, childVars, pc, monitorVars,
                   harnessVars>>

\* The child writes a record; the first k bytes reach the file at once, the
\* rest stays pending.
ChildWrite(u, k) ==
    /\ pc \in {"poll", "tail", "kill"}
    /\ log_exists
    /\ childAlive /\ pending = <<>>
    /\ progress[u] < 2
    /\ LET line == EncodeLine(ChildEvent(u))
       IN /\ log' = log \o SubSeq(line, 1, k)
          /\ pending' = SubSeq(line, k + 1, Len(line))
    /\ progress' = [progress EXCEPT ![u] = @ + 1]
    /\ UNCHANGED <<configVars, log_exists, pluginVars, uploadVars,
                   clock, childAlive, returncode, pc, monitorVars, harnessVars>>

\* The rest of a record begun earlier reaches the file.
ChildFinishWrite ==
    /\ pc \in {"poll", "tail", "kill"}
    /\ childAlive /\ pending # <<>>
    /\ log' = log \o pending
    /\ pending' = <<>>
    /\ UNCHANGED <<configVars, log_exists, pluginVars, uploadVars,
                   clock, childAlive, returncode, progress, pc, monitorVars,
                   harnessVars>>

\* The child ends by itself (also in the middle of a record: a crash).
ChildExit(c) ==
    /\ pc \in {"poll", "tail", "kill"}
    /\ childAlive
    /\ childAlive' = FALSE
    /\ returncode' = c
    /\ pending' = <<>>
    /\ UNCHANGED <<configVars, log_exists, pluginVars, uploadVars,
                   clock, log, progress, pc, monitorVars, harnessVars>>

\* ------------------------------------------------- monitor_subprocess steps
\* A poll that tests the exit code for truth (`if exit_code:`), so that a
\* child that exited with 0 counts as still running.
PollTruthy ==
    /\ pc = "poll"
    /\ IF ~childAlive /\ returncode # 0
       THEN /\ pc' = "done"
            /\ exit_code' = returncode
       ELSE /\ pc' = "tail"
            /\ UNCHANGED exit_code
    /\ UNCHANGED <<configVars, log_exists, pluginVars, uploadVars,
                   clock, log, childVars, run_start, file_offset,
                   active_tests, now, timeout, waited, harnessVars>>

\* A loop that runs its timeout checks before the liveness check.
PollLimitsFirst ==
    /\ pc = "poll"
    /\ LET to == CheckTimeouts(active_tests, clock, run_start, test_timeout_sec,
                               total_timeout_sec)
       IN IF to # NoTimeout
          THEN /\ pc' = "kill"
               /\ timeout' = to
               /\ now' = clock
               /\ UNCHANGED exit_code
          ELSE /\ IF ~childAlive
                  THEN /\ pc' = "done"
                       /\ exit_code' = returncode
                  ELSE /\ pc' = "tail"
                       /\ UNCHANGED exit_code
               /\ UNCHANGED <<now, timeout>>
    /\ UNCHANGED <<configVars, log_exists, pluginVars, uploadVars,
                   clock, log, childVars, run_start, file_offset,
                   active_tests, waited, harnessVars>>

\* proc.poll() and the return of the loop's first statement.
Poll ==
    /\ pc = "poll"
    /\ IF ~childAlive
       THEN /\ pc' = "done"
            /\ exit_code' = returncode
       ELSE /\ pc' = "tail"
            /\ UNCHANGED exit_code
    /\ UNCHANGED <<configVars, log_exists, pluginVars, uploadVars,
                   clock, log, childVars, run_start, file_offset,
                   active_tests, now, timeout, waited, harnessVars>>

\* A loop iteration whose tail does not catch FileNotFoundError: without the
\* file the exception leaves monitor_subprocess.
TickNoCatch ==
    /\ pc = "tail"
    /\ IF ~log_exists
       THEN /\ pc' = "raised"
            /\ UNCHANGED <<file_offset, active_tests, now, timeout, clock>>
       ELSE LET r == _read_new_events(log, file_offset, active_tests, clock)
                to == CheckTimeouts(r.active, clock, run_start, test_timeout_sec,
                                    total_timeout_sec)
            IN /\ file_offset' = r.offset
               /\ active_tests' = r.active
               /\ now' = clock
               /\ timeout' = to
               /\ IF to # NoTimeout
                  THEN pc' = "kill" /\ UNCHANGED clock
                  ELSE /\ clock + poll_interval <= MaxClock
                       /\ clock' = clock + poll_interval
                       /\ pc' = "poll"
    /\ UNCHANGED <<configVars, log_exists, pluginVars, uploadVars,
                   log, childVars, run_start, exit_code, waited, harnessVars>>

\* A loop iteration whose tail lets a validation error out: a line that does
\* not decode ends monitor_subprocess with the exception.
TickValidationEscapes ==
    /\ pc = "tail"
    /\ IF \E k \in DOMAIN splitlines(SubSeq(log, file_offset + 1, Len(log))) :
             LET line == strip(splitlines(SubSeq(log, file_offset + 1, Len(log)))[k])
             IN line # <<>> /\ ~Decodable(line)
       THEN /\ pc' = "raised"
            /\ UNCHANGED <<clock, file_offset, active_tests, now, timeout>>
       ELSE LET r == TailPath(log_exists, log, file_offset, active_tests, clock)
                to == CheckTimeouts(r.active, clock, run_start, test_timeout_sec,
                                    total_timeout_sec)
            IN /\ file_offset' = r.offset
               /\ active_tests' = r.active
               /\ now' = clock
               /\ timeout' = to
               /\ IF to # NoTimeout
                  THEN pc' = "kill" /\ UNCHANGED clock
                  ELSE /\ clock + poll_interval <= MaxClock
                       /\ clock' = clock + poll_interval
                       /\ pc' = "poll"
    /\ UNCHANGED <<configVars, log_exists, pluginVars, uploadVars,
                   log, childVars, run_start, exit_code, waited, harnessVars>>

\* The rest of one loop iteration: tail the file, read the clock, check both
\* timeouts, and sleep when neither fired.
Tick ==
    /\ pc = "tail"
    /\ LET r == TailPath(log_exists, log, file_offset, active_tests, clock)
           to == CheckTimeouts(r.active, clock, run_start, test_timeout_sec,
                               total_timeout_sec)
       IN /\ file_offset' = r.offset
          /\ active_tests' = r.active
          /\ now' = clock
          /\ timeout' = to
          /\ IF to # NoTimeout
             THEN pc' = "kill" /\ UNCHANGED clock
             ELSE /\ clock + poll_interval <= MaxClock
                  /\ clock' = clock + poll_interval
                  /\ pc' = "poll"
    /\ UNCHANGED <<configVars, log_exists, pluginVars, uploadVars,
                   log, childVars, run_start, exit_code, waited, harnessVars>>

\* proc.kill() raises: nothing in _kill_and_record catches it.
KillRaises ==
    /\ pc = "kill"
    /\ pc' = "raised"
    /\ log_exists' = FALSE
    /\ UNCHANGED <<configVars, pluginVars, uploadVars, clock, log, childVars,
                   monitorVars, harnessVars>>

\* _kill_and_record with a kill that works: how = "ok" (wait returns after
\* d seconds) or "raised" (wait raises, here TimeoutExpired after the grace
\* period; any other exception takes the same except branch).
KillAndRecord(how, d) ==
    /\ pc = "kill"
    /\ how = "ok" \/ d = 0
    /\ LET code == IF childAlive THEN KillSentinel ELSE returncode
           t == clock + (IF how = "raised" THEN GraceSec ELSE d)
       IN /\ childAlive' = FALSE
          /\ returncode' = code
          /\ pending' = <<>>
          /\ exit_code' = IF how = "ok" THEN code ELSE KillSentinel
          /\ clock' = t
          /\ log' = record_all(log, active_tests, t, timeout)
    /\ waited' = how
    /\ pc' = "done"
    /\ UNCHANGED <<configVars, log_exists, pluginVars, uploadVars,
                   progress, run_start, file_offset, active_tests, now,
                   timeout, harnessVars>>

\* ------------------------------------------------------------------ run()
\* A read_events without its except clause: a missing file ends run().
ReadEventsNoCatch ==
    /\ pc = "done"
    /\ IF log_exists
       THEN events' = read_events(log) /\ pc' = "read"
       ELSE UNCHANGED events /\ pc' = "raised"
    /\ UNCHANGED <<configVars, log_exists, pluginVars, uploadVars,
                   clock, log, childVars, monitorVars, resolved>>

\* events = read_events(results_file)
ReadEvents ==
    /\ pc = "done"
    /\ events' = read_events_path(log_exists, log)
    /\ pc' = "read"
    /\ UNCHANGED <<configVars, log_exists, pluginVars, uploadVars,
                   clock, log, childVars, monitorVars, resolved>>

\* A resolver that empties the list it is given while it walks it.
ResolveDrains ==
    /\ pc = "read"
    /\ resolved' = resolve_events(events)
    /\ events' = <<>>
    /\ pc' = "resolved"
    /\ UNCHANGED <<configVars, log_exists, pluginVars, uploadVars,
                   clock, log, childVars, monitorVars>>

\* resolved = resolve_events(events)
Resolve ==
    /\ pc = "read"
    /\ resolved' = resolve_events(events)
    /\ pc' = "resolved"
    /\ UNCHANGED <<configVars, log_exists, pluginVars, uploadVars,
                   clock, log, childVars, monitorVars, events>>


\* The backends loop of run(): one upload() call.  A stub upload prints; a
\* buildkite or mslci upload ends "ok", "logged" (urlopen raised URLError or
\* OSError, which _post_batch catches and logs) or "raised" (any other
\* exception, which nothing between urlopen and the caller of run() catches).
BackendLists == {<<"buildkite", "stub">>, <<"stub", "mslci">>}
UploadOutcomes(name) == IF name = "stub" THEN {"ok"} ELSE {"ok", "logged", "raised"}

\* fd, results_path = tempfile.mkstemp(...): run() creates the results file.
Mkstemp ==
    /\ pc = "mkstemp"
    /\ log_exists' = TRUE
    /\ log' = <<>>
    /\ pc' = "popen"
    /\ UNCHANGED <<configVars, pluginVars, uploadVars, clock, childVars, monitorVars,
                   harnessVars>>

\* subprocess.Popen(...) inside the try: the child starts, or Popen raises
\* (no such interpreter) and the finally clause removes the file.
Popen(ok) ==
    /\ pc = "popen"
    /\ childAlive' = ok
    /\ pc' = IF ok THEN "poll" ELSE "raised"
    /\ log_exists' = IF ok THEN log_exists ELSE FALSE
    /\ UNCHANGED <<configVars, pluginVars, uploadVars, clock, log, returncode, pending,
                   progress, monitorVars, harnessVars>>

\* print_results(resolved): writes to the console, or raises.
PrintResults(ok) ==
    /\ pc = "resolved"
    /\ pc' = IF ok THEN "printed" ELSE "raised"
    /\ log_exists' = IF ok THEN log_exists ELSE FALSE
    /\ UNCHANGED <<configVars, pluginVars, uploadVars, clock, log, childVars, monitorVars,
                   harnessVars>>

\* An upload loop whose file is removed at the end of run(), with no finally.
UploadNoFinally(o) ==
    /\ pc = "printed"
    /\ events # <<>>
    /\ Len(uploaded) < Len(backends)
    /\ LET name == backends[Len(uploaded) + 1]
       IN /\ o \in UploadOutcomes(name)
          /\ uploaded' = Append(uploaded, [name |-> name, outcome |-> o])
    /\ pc' = IF o = "raised" THEN "raised" ELSE pc
    /\ UNCHANGED <<configVars, log_exists, pluginVars, backends, returned, credential, requests, clock, log,
                   childVars, monitorVars, harnessVars>>

Upload(o) ==
    /\ pc = "printed"
    /\ events # <<>>
    /\ Len(uploaded) < Len(backends)
    /\ LET name == backends[Len(uploaded) + 1]
       IN /\ o \in UploadOutcomes(name)
          /\ uploaded' = Append(uploaded, [name |-> name, outcome |-> o])
    /\ IF o = "raised"
       THEN pc' = "raised" /\ log_exists' = FALSE
       ELSE UNCHANGED <<pc, log_exists>>
    /\ UNCHANGED <<configVars, pluginVars, backends, returned, credential, requests, clock, log, childVars,
                   monitorVars, harnessVars>>

\* A run() that answers 1 when a result is not a success.
ReturnFailedResults ==
    /\ pc = "printed"
    /\ events = <<>> \/ Len(uploaded) = Len(backends)
    /\ returned' = IF \E k \in DOMAIN resolved : resolved[k].outcome = "failed"
                   THEN 1 ELSE exit_code
    /\ pc' = "returned"
    /\ log_exists' = FALSE
    /\ UNCHANGED <<configVars, pluginVars, backends, uploaded, credential, requests, clock, log, childVars,
                   monitorVars, harnessVars>>

\* return exit_code, and the unlink of the finally clause.
Return ==
    /\ pc = "printed"
    /\ events = <<>> \/ Len(uploaded) = Len(backends)
    /\ returned' = exit_code
    /\ pc' = "returned"
    /\ log_exists' = FALSE
    /\ UNCHANGED <<configVars, pluginVars, backends, uploaded, credential, requests, clock, log, childVars,
                   monitorVars, harnessVars>>

\* ------------------------------------------------------- the pytest plugin
\* pytest runs the items in order; for each it calls logstart, then reports
\* setup, then call when setup passed, then teardown.
Items == <<"a", "b">>
NoProtocol == [item |-> 0, next |-> "none"]
ReportOutcomes == {"passed", "failed", "skipped"}
ReportRepr == [text |-> "traceback", limit |-> 0, elapsed |-> 0]

\* A pytest.TestReport; wasxfail says whether the attribute is there.
TestReport(nodeid, when, outcome, wasxfail) ==
    [nodeid |-> nodeid, when |-> when, outcome |-> outcome, wasxfail |-> wasxfail,
     duration |-> 1, start |-> WallTime(nodeid), stop |-> WallTime(nodeid) + 1,
     location |-> LocationOf(nodeid),
     longrepr |-> IF outcome = "passed" THEN NoRepr ELSE ReportRepr]

\* A mapping that does not look at the expected-failure tag.
_map_outcomeIgnoresTag(report) ==
    IF report.outcome \in {"passed", "failed", "skipped"} THEN report.outcome
    ELSE "error"

_map_outcome(report) ==
    IF report.wasxfail
    THEN (IF report.outcome = "passed" THEN "xpassed" ELSE "xfailed")
    ELSE IF report.outcome \in {"passed", "failed", "skipped"} THEN report.outcome
    ELSE "error"

\* The outcome pytest_runtest_logreport chooses; NoneStr where it returns
\* without writing.
logreport_outcome(report) ==
    IF report.when = "call" THEN _map_outcome(report)
    ELSE IF report.when = "setup" /\ report.outcome = "skipped" THEN _map_outcome(report)
    ELSE IF report.outcome = "failed" THEN "error"
    ELSE NoneStr

\* What pytest_runtest_logreport writes to the file for one report.
pytest_runtest_logreport(report) ==
    LET outcome == logreport_outcome(report)
        longrepr == IF report.outcome = "failed" \/ outcome = "error"
                    THEN report.longrepr ELSE NoRepr
    IN IF outcome = NoneStr THEN <<>>
       ELSE EncodeLine(TestFinished(report.nodeid, outcome, report.when, report.duration,
                                    report.start, report.stop, report.location, longrepr))

\* What pytest_runtest_logstart writes to the file.
pytest_runtest_logstart(nodeid, location) ==
    EncodeLine(TestStarted(nodeid, WallTime(nodeid), location))

\* The phase pytest reports after `report`, "logstart" for the next item.
NextPhase(report) ==
    IF report.when = "setup" THEN (IF report.outcome = "passed" THEN "call" ELSE "teardown")
    ELSE IF report.when = "call" THEN "teardown"
    ELSE "logstart"

LogStart ==
    /\ pc = "plugin"
    /\ protocol.next = "logstart"
    /\ protocol.item <= Len(Items)
    /\ log' = log \o pytest_runtest_logstart(Items[protocol.item],
                                             LocationOf(Items[protocol.item]))
    /\ protocol' = [protocol EXCEPT !.next = "setup"]
    /\ UNCHANGED <<configVars, log_exists, uploadVars, clock, childVars, pc, monitorVars,
                   harnessVars>>

\* pytest sets wasxfail only on a report it turns into skipped (an expected
\* failure that happened, in any phase) or on a passed call report (an
\* expected failure that did not happen).
TaggedBy(when, o, x) == x => (o = "skipped" \/ (o = "passed" /\ when = "call"))

LogReport(o, x) ==
    /\ pc = "plugin"
    /\ protocol.next \in {"setup", "call", "teardown"}
    /\ TaggedBy(protocol.next, o, x)
    /\ LET report == TestReport(Items[protocol.item], protocol.next, o, x)
       IN /\ log' = log \o pytest_runtest_logreport(report)
          /\ protocol' = [item |-> IF report.when = "teardown"
                                   THEN protocol.item + 1 ELSE protocol.item,
                          next |-> NextPhase(report)]
    /\ UNCHANGED <<configVars, log_exists, uploadVars, clock, childVars, pc, monitorVars,
                   harnessVars>>

\* The second resolve_events(events) on the list run() read: the one a
\* buildkite or mslci upload makes for itself.
ResolveAgain ==
    /\ pc = "resolved"
    /\ resolved' = resolve_events(events)
    /\ pc' = "resolved_again"
    /\ UNCHANGED <<configVars, log_exists, pluginVars, uploadVars,
                   clock, log, childVars, monitorVars, events>>

\* ------------------------------------------------------ the specifications
\* run(): the log exists and is empty, the child has just been started, and
\* monitor_subprocess has read run_start.
Init ==
    /\ \E cfg \in Configs :
          /\ test_timeout_sec = cfg[1]
          /\ total_timeout_sec = cfg[2]
          /\ poll_interval = cfg[3]
    /\ clock = 0
    /\ log = <<>>
    /\ childAlive = TRUE
    /\ returncode = 0
    /\ pending = <<>>
    /\ progress = [u \in Units |-> 0]
    /\ pc = "poll"
    /\ run_start = 0
    /\ file_offset = 0
    /\ active_tests = <<>>
    /\ now = 0
    /\ timeout = NoTimeout
    /\ exit_code = 0
    /\ waited = "none"
    /\ events = <<>>
    /\ resolved = <<>>
    /\ log_exists = TRUE
    /\ protocol = NoProtocol
    /\ backends = <<>>
    /\ credential = TRUE
    /\ requests = <<>>
    /\ uploaded = <<>>
    /\ returned = 0

Next ==
    \/ \E u \in Units, k \in SplitPoints : ChildWrite(u, k)
    \/ ChildFinishWrite
    \/ \E c \in ExitCodes : ChildExit(c)
    \/ Poll
    \/ Tick
    \/ KillRaises
    \/ \E how \in {"ok", "raised"}, d \in WaitDelays : KillAndRecord(how, d)
    \/ ReadEvents
    \/ Resolve

Spec == Init /\ [][Next]_vars

\* resolve_events alone, on every event list of at most MaxEvents events.
ResolveInputs ==
    {TestStarted(u, s, LocationOf(u)) : u \in Units, s \in {100, 101}}
    \cup {TestFinished(u, o, "call", 1, 100, 101, LocationOf(u), NoRepr) :
            u \in Units, o \in {"passed", "failed"}}

InitResolve ==
    /\ test_timeout_sec = NoLimit
    /\ total_timeout_sec = NoLimit
    /\ poll_interval = 1
    /\ clock = 0
    /\ log = <<>>
    /\ childAlive = FALSE
    /\ returncode = 0
    /\ pending = <<>>
    /\ progress = [u \in Units |-> 0]
    /\ pc = "read"
    /\ run_start = 0
    /\ file_offset = 0
    /\ active_tests = <<>>
    /\ now = 0
    /\ timeout = NoTimeout
    /\ exit_code = 0
    /\ waited = "none"
    /\ events \in UNION {[1..n -> ResolveInputs] : n \in 0..MaxEvents}
    /\ resolved = <<>>
    /\ log_exists = TRUE
    /\ protocol = NoProtocol
    /\ backends = <<>>
    /\ credential = TRUE
    /\ requests = <<>>
    /\ uploaded = <<>>
    /\ returned = 0

NextResolve == Resolve

SpecResolve == InitResolve /\ [][NextResolve]_vars

\* resolve_events called twice on the same list.
NextResolveTwice ==
    \/ Resolve
    \/ ResolveAgain

SpecResolveTwice == InitResolve /\ [][NextResolveTwice]_vars


\* The values every specification below starts from, the file and the
\* position apart.
Idle ==
    /\ clock = 0
    /\ returncode = 0
    /\ pending = <<>>
    /\ progress = [u \in Units |-> 0]
    /\ run_start = 0
    /\ file_offset = 0
    /\ active_tests = <<>>
    /\ now = 0
    /\ timeout = NoTimeout
    /\ exit_code = 0
    /\ waited = "none"
    /\ events = <<>>
    /\ resolved = <<>>
    /\ uploaded = <<>>
    /\ returned = 0

\* monitor_subprocess and read_events on a path whose file the child has
\* yet to create.
MissingConfigs == {<<NoLimit, 3, 1>>, <<3, NoLimit, 2>>, <<NoLimit, NoLimit, 2>>}

InitMissing ==
    /\ \E cfg \in MissingConfigs :
          /\ test_timeout_sec = cfg[1]
          /\ total_timeout_sec = cfg[2]
          /\ poll_interval = cfg[3]
    /\ Idle
    /\ childAlive = TRUE
    /\ log = <<>>
    /\ log_exists = FALSE
    /\ pc = "poll"
    /\ protocol = NoProtocol
    /\ backends = <<>>
    /\ credential = TRUE
    /\ requests = <<>>

NextMissing ==
    \/ ChildCreate
    \/ Next

SpecMissing == InitMissing /\ [][NextMissing]_vars

\* run() from the start of the child to its return, with its backends.
RunConfigs == {<<NoLimit, 3, 1>>, <<3, NoLimit, 2>>}

InitRun ==
    /\ \E cfg \in RunConfigs :
          /\ test_timeout_sec = cfg[1]
          /\ total_timeout_sec = cfg[2]
          /\ poll_interval = cfg[3]
    /\ Idle
    /\ childAlive = FALSE
    /\ log = <<>>
    /\ log_exists = FALSE
    /\ pc = "mkstemp"
    /\ protocol = NoProtocol
    /\ backends \in BackendLists
    /\ credential = TRUE
    /\ requests = <<>>

NextRun ==
    \/ Mkstemp
    \/ \E ok \in BOOLEAN : Popen(ok)
    \/ Next
    \/ \E ok \in BOOLEAN : PrintResults(ok)
    \/ \E o \in {"ok", "logged", "raised"} : Upload(o)
    \/ Return

SpecRun == InitRun /\ [][NextRun]_vars

\* read_events alone, on every file of at most MaxLines lines, with and
\* without the newline of the last line.
MaxLines == 3
Junk == [ev |-> NoEvent, part |-> "junk"]
OtherEvent == [type |-> "other", nodeid |-> JStr("a")]
NoTypeObject == [nodeid |-> JStr("a"), start |-> JNum(100)]
LineKinds ==
    {model_dump_json(TestStarted("a", 100, LocationOf("a"))),
     model_dump_json(TestFinished("a", "passed", "call", 1, 100, 101, LocationOf("a"),
                                  NoRepr)),
     <<SP>> \o model_dump_json(TestStarted("b", 200, LocationOf("b"))) \o <<SP>>,
     <<>>,
     <<SP>>,
     <<Junk>>,
     <<Byte(to_json(TestStarted("a", 100, LocationOf("a"))), "head")>>,
     <<Byte(OtherEvent, "head"), Byte(OtherEvent, "tail")>>,
     <<Byte(NoTypeObject, "head"), Byte(NoTypeObject, "tail")>>}

RECURSIVE JoinLines(_)
JoinLines(lines) ==
    IF lines = <<>> THEN <<>> ELSE Head(lines) \o <<NL>> \o JoinLines(Tail(lines))

FileContents ==
    UNION {{JoinLines(lines), SubSeq(JoinLines(lines), 1, Len(JoinLines(lines)) - 1)} :
             lines \in UNION {[1..n -> LineKinds] : n \in 0..MaxLines}}

InitRead ==
    /\ test_timeout_sec = NoLimit
    /\ total_timeout_sec = NoLimit
    /\ poll_interval = 1
    /\ Idle
    /\ childAlive = TRUE
    /\ log \in FileContents
    /\ log_exists = TRUE
    /\ pc = "done"
    /\ protocol = NoProtocol
    /\ backends = <<>>
    /\ credential = TRUE
    /\ requests = <<>>

NextRead ==
    \/ ReadEvents
    \/ Resolve

SpecRead == InitRead /\ [][NextRead]_vars

\* The plugin alone, under a pytest session that has opened the file.
InitPlugin ==
    /\ test_timeout_sec = NoLimit
    /\ total_timeout_sec = NoLimit
    /\ poll_interval = 1
    /\ Idle
    /\ childAlive = TRUE
    /\ log = <<>>
    /\ log_exists = TRUE
    /\ pc = "plugin"
    /\ protocol = [item |-> 1, next |-> "logstart"]
    /\ backends = <<>>
    /\ credential = TRUE
    /\ requests = <<>>

NextPlugin ==
    \/ LogStart
    \/ \E o \in ReportOutcomes, x \in BOOLEAN : LogReport(o, x)

SpecPlugin == InitPlugin /\ [][NextPlugin]_vars

\* monitor_subprocess and read_events on a file to which a writer appends
\* whole lines: records of both kinds and JSON objects that are no TestEvent.
TailLineKinds ==
    {model_dump_json(TestStarted("a", 100, LocationOf("a"))),
     model_dump_json(TestFinished("a", "passed", "call", 1, 100, 101, LocationOf("a"),
                                  NoRepr)),
     <<SP>> \o model_dump_json(TestStarted("b", 200, LocationOf("b"))) \o <<SP>>,
     <<Byte(OtherEvent, "head"), Byte(OtherEvent, "tail")>>,
     <<Byte(NoTypeObject, "head"), Byte(NoTypeObject, "tail")>>}
LineCount(data) == Cardinality({i \in DOMAIN data : data[i] = NL})

AppendLine(line) ==
    /\ pc \in {"poll", "tail"}
    /\ childAlive
    /\ LineCount(log) < MaxLines
    /\ log' = log \o line \o <<NL>>
    /\ UNCHANGED <<configVars, log_exists, pluginVars, uploadVars,
                   clock, childVars, pc, monitorVars, harnessVars>>

InitTail ==
    /\ test_timeout_sec = NoLimit
    /\ total_timeout_sec = NoLimit
    /\ poll_interval = 1
    /\ Idle
    /\ childAlive = TRUE
    /\ log = <<>>
    /\ log_exists = TRUE
    /\ pc = "poll"
    /\ protocol = NoProtocol
    /\ backends = <<>>
    /\ credential = TRUE
    /\ requests = <<>>

NextTail ==
    \/ \E line \in TailLineKinds : AppendLine(line)
    \/ \E c \in ExitCodes : ChildExit(c)
    \/ Poll
    \/ Tick
    \/ ReadEvents

SpecTail == InitTail /\ [][NextTail]_vars

\* monitor_subprocess with a per-test limit on a file to which a writer
\* appends whole lines in any order, so that a unit may start again.
RestartConfigs == {<<3, NoLimit, 1>>, <<3, NoLimit, 2>>}

InitRestart ==
    /\ \E cfg \in RestartConfigs :
          /\ test_timeout_sec = cfg[1]
          /\ total_timeout_sec = cfg[2]
          /\ poll_interval = cfg[3]
    /\ Idle
    /\ childAlive = TRUE
    /\ log = <<>>
    /\ log_exists = TRUE
    /\ pc = "poll"
    /\ protocol = NoProtocol
    /\ backends = <<>>
    /\ credential = TRUE
    /\ requests = <<>>

NextRestart ==
    \/ \E line \in TailLineKinds : AppendLine(line)
    \/ \E c \in ExitCodes : ChildExit(c)
    \/ Poll
    \/ Tick
    \/ \E how \in {"ok", "raised"}, d \in WaitDelays : KillAndRecord(how, d)

SpecRestart == InitRestart /\ [][NextRestart]_vars

\* ------------------------------------------------------- backend.upload
\* _BATCH_SIZE of the two backends (100 and 5000 in the source), scaled to
\* the lists the model can hold.
BuildkiteBatchSize == 2
MslciBatchSize == 3
BatchSize(name) == IF name = "buildkite" THEN BuildkiteBatchSize ELSE MslciBatchSize

\* _OUTCOME_MAP of the Buildkite backend.
buildkite_map_outcome(outcome) ==
    IF outcome \in {"passed", "xpassed"} THEN "passed"
    ELSE IF outcome \in {"failed", "error"} THEN "failed"
    ELSE "skipped"

\* _location_to_str and the same lines of _convert_event: "file:line",
\* "file" without a line, None without a location.
location_to_str(loc) ==
    IF loc = NoLocation THEN <<NoneStr>>
    ELSE IF loc[2] = NoLine THEN <<loc[1]>>
    ELSE <<loc[1], loc[2]>>

\* _convert_event (the random "id" and the split of the nodeid left out).
_convert_event(ev) ==
    LET result == buildkite_map_outcome(ev.outcome)
    IN [identifier |-> ev.nodeid,
        location |-> location_to_str(ev.location),
        result |-> result,
        history |-> [start_at |-> ev.start, end_at |-> ev.stop, duration |-> ev.duration],
        failure_reason |-> IF result = "failed" /\ ev.longrepr # NoRepr
                           THEN ev.longrepr.text ELSE ""]

\* _serialize_event: the fields of the event without "type", the location
\* as a string.
_serialize_event(ev) ==
    [nodeid |-> ev.nodeid, outcome |-> ev.outcome, when |-> ev.when,
     duration |-> ev.duration, start |-> ev.start, stop |-> ev.stop,
     location |-> location_to_str(ev.location), longrepr |-> ev.longrepr]

\* data = [convert(ev) for ev in resolved] of the backend called `name`.
UploadData(name, res) ==
    [k \in DOMAIN res |->
        IF name = "buildkite" THEN _convert_event(res[k]) ELSE _serialize_event(res[k])]

\* How a _post_batch call ends: the request succeeds, fails with an
\* exception that is caught and logged (URLError, OSError), or fails with
\* one that is not (http.client.HTTPException, ValueError).
PostOutcomes == {"ok", "logged", "raised"}

\* upload(events) up to its for loop: no credential, or nothing resolved,
\* and it returns without a request.
UploadBegin ==
    /\ pc = "upload"
    /\ IF ~credential
       THEN pc' = "uploaded" /\ UNCHANGED resolved
       ELSE /\ resolved' = resolve_events(events)
            /\ pc' = IF resolve_events(events) = <<>> THEN "uploaded" ELSE "batch"
    /\ UNCHANGED <<configVars, log_exists, pluginVars, uploadVars, clock, log,
                   childVars, monitorVars, events>>

\* One iteration of `for i in range(0, len(data), _BATCH_SIZE)`.
PostBatch(o) ==
    /\ pc = "batch"
    /\ LET name == backends[1]
           data == UploadData(name, resolved)
           i == Len(requests) * BatchSize(name)
           batch == SubSeq(data, i + 1, Min({i + BatchSize(name), Len(data)}))
       IN /\ requests' = Append(requests, [batch |-> batch, outcome |-> o])
          /\ pc' = IF o = "raised" THEN "raised"
                   ELSE IF i + BatchSize(name) >= Len(data) THEN "uploaded"
                   ELSE "batch"
    /\ UNCHANGED <<configVars, log_exists, pluginVars, backends, uploaded, returned,
                   credential, clock, log, childVars, monitorVars, harnessVars>>

UploadInputs ==
    {TestStarted(u, WallTime(u), LocationOf(u)) : u \in Units}
    \cup {TestFinished("a", "passed", "call", 1, 100, 101, LocationOf("a"), NoRepr),
          TestFinished("b", "error", "setup", 0, 200, 200, <<"test.py", NoLine, "b">>,
                       [text |-> "assert 1 == 2", limit |-> 0, elapsed |-> 0])}

InitUpload ==
    /\ test_timeout_sec = NoLimit
    /\ total_timeout_sec = NoLimit
    /\ poll_interval = 1
    /\ clock = 0
    /\ returncode = 0
    /\ pending = <<>>
    /\ progress = [u \in Units |-> 0]
    /\ run_start = 0
    /\ file_offset = 0
    /\ active_tests = <<>>
    /\ now = 0
    /\ timeout = NoTimeout
    /\ exit_code = 0
    /\ waited = "none"
    /\ events \in UNION {[1..n -> UploadInputs] : n \in 0..MaxEvents}
    /\ resolved = <<>>
    /\ uploaded = <<>>
    /\ returned = 0
    /\ childAlive = FALSE
    /\ log = <<>>
    /\ log_exists = TRUE
    /\ pc = "upload"
    /\ protocol = NoProtocol
    /\ \E name \in {"buildkite", "mslci"} : backends = <<name>>
    /\ credential \in BOOLEAN
    /\ requests = <<>>

NextUpload ==
    \/ UploadBegin
    \/ \E o \in PostOutcomes : PostBatch(o)

SpecUpload == InitUpload /\ [][NextUpload]_vars

\* One event of every shape, written as a record and read back: both kinds,
\* every outcome, each optional field absent and present.
Locations(u) == {NoLocation, LocationOf(u), <<"test.py", NoLine, u>>}
Longreprs == {NoRepr, CRASH_REPR, [text |-> "assert 1 == 2", limit |-> 0, elapsed |-> 0]}
SampleEvents ==
    {TestStarted(u, s, l) : u \in Units, s \in {0, 100}, l \in UNION {Locations(v) : v \in Units}}
    \cup {TestFinished(u, o, w, d, 100, 100 + d, l, r) :
             u \in {"a"}, o \in OutcomeValues, w \in {"setup", "call"}, d \in {0, 1},
             l \in Locations("a"), r \in Longreprs}

\* line = event.model_dump_json(), written as one line of the file.
WriteEvent ==
    /\ pc = "sample"
    /\ log' = append_event(log, events[1])
    /\ pc' = "done"
    /\ UNCHANGED <<configVars, log_exists, pluginVars, uploadVars,
                   clock, childVars, monitorVars, events, resolved>>

InitCodec ==
    /\ test_timeout_sec = NoLimit
    /\ total_timeout_sec = NoLimit
    /\ poll_interval = 1
    /\ clock = 0
    /\ returncode = 0
    /\ pending = <<>>
    /\ progress = [u \in Units |-> 0]
    /\ run_start = 0
    /\ file_offset = 0
    /\ active_tests = <<>>
    /\ now = 0
    /\ timeout = NoTimeout
    /\ exit_code = 0
    /\ waited = "none"
    /\ \E e \in SampleEvents : events = <<e>>
    /\ resolved = <<>>
    /\ uploaded = <<>>
    /\ returned = 0
    /\ childAlive = FALSE
    /\ log = <<>>
    /\ log_exists = TRUE
    /\ pc = "sample"
    /\ protocol = NoProtocol
    /\ backends = <<>>
    /\ credential = TRUE
    /\ requests = <<>>

NextCodec ==
    \/ WriteEvent
    \/ ReadEvents

SpecCodec == InitCodec /\ [][NextCodec]_vars

\* ================================================================ claims
StartedIds(evs) == {evs[i].nodeid : i \in {j \in DOMAIN evs : isStarted(evs[j])}}
CountFor(res, u) == Cardinality({i \in DOMAIN res : res[i].nodeid = u})

\* Exactly one result for each Started unit_id and nothing else.
OnePerStarted(evs, res) ==
    /\ \A u \in StartedIds(evs) : CountFor(res, u) = 1
    /\ \A i \in DOMAIN res : res[i].nodeid \in StartedIds(evs)
    /\ Len(res) = Cardinality(StartedIds(evs))

\* No unit_id has two Finished events, and no unit_id without a Finished has
\* two Started events.
UniqueIds(evs) ==
    \A i, j \in DOMAIN evs :
        (i # j /\ evs[i].nodeid = evs[j].nodeid /\ evs[i].type = evs[j].type)
            => (isStarted(evs[i]) /\ evs[i].nodeid \in finished_nodeids(evs))

\* C1 as stated: for every event list whose Finished ids all have a Started,
\* resolve_events returns exactly one result per Started unit_id and nothing
\* else, so as many results as Started units.
C1_OnePerStartedAnyList ==
    (pc = "resolved" /\ finished_nodeids(events) \subseteq StartedIds(events))
        => OnePerStarted(events, resolved)

\* C1 amended: the same, for the event lists in which no unit_id has two
\* Finished events and no unit_id without a Finished has two Started events.
C1_OnePerStartedUniqueIds ==
    (pc = "resolved" /\ finished_nodeids(events) \subseteq StartedIds(events)
        /\ UniqueIds(events))
        => OnePerStarted(events, resolved)

\* A resolved list with a matched unit and a dangling unit.
C1_Witness ==
    /\ pc = "resolved"
    /\ UniqueIds(events)
    /\ finished_nodeids(events) \subseteq StartedIds(events)
    /\ finished_nodeids(events) # {}
    /\ StartedIds(events) \ finished_nodeids(events) # {}
    /\ Len(resolved) = 2

\* C2 as stated: after any interleaving of child writes with the monitor,
\* ending in a normal exit or a timeout kill, read_events and resolve_events
\* on the final log give exactly one result for every unit_id that has a
\* Started in the log.
C2_OneResultPerStartedUnit ==
    pc = "resolved" =>
        \A u \in StartedIds(read_events(log)) : CountFor(resolved, u) = 1

\* C3 as stated: a tail decodes only newline-terminated lines and leaves its
\* offset just behind a newline (or at 0), so a record written in two pieces
\* is read whole by a later tail: the active map always holds the units whose
\* last record in the consumed part of the file is a Started.
C3_OffsetBehindLastCompleteLine ==
    /\ file_offset = 0 \/ (file_offset <= Len(log) /\ log[file_offset] = NL)
    /\ ActiveKeys(active_tests)
          = ActiveKeys(apply_events(<<>>, read_events(SubSeq(log, 1, file_offset)), 0))

\* The states after monitor_subprocess has returned.
Returned == pc \in {"done", "read", "resolved"}
Running == pc \in {"poll", "tail"}
TimeoutTexts == {"per-test timeout", "total run exceeded timeout"}

\* The records in `data` that carry a timeout text, in file order (only the
\* monitor writes such records; the head byte of a record stands for it).
IsSynthHead(b) ==
    /\ b.part = "head"
    /\ ValidObject(b.ev)
    /\ isFinished(from_json(b.ev))
    /\ from_json(b.ev).longrepr.text \in TimeoutTexts
SynthHeads(data) == SelectSeq(data, IsSynthHead)
SynthEvents(data) == [i \in DOMAIN SynthHeads(data) |-> from_json(SynthHeads(data)[i].ev)]

\* C4: a per-unit timeout names an active unit, carries limit = L and
\* elapsed = tick time - observation time, fires at a tick where elapsed >= L
\* whose previous tick had elapsed < L, and the loop never sleeps past a tick
\* at which an active unit has reached L (limit 5, interval 2, start 0: t = 6).
C4_PerUnitTimeoutAtFirstDueTick ==
    /\ timeout.kind = "test" =>
          /\ test_timeout_sec # NoLimit
          /\ timeout.limit = test_timeout_sec
          /\ \E i \in DOMAIN active_tests :
                /\ active_tests[i].nodeid = timeout.nodeid
                /\ timeout.elapsed = now - active_tests[i].mono_start
                /\ (test_timeout_sec = 5 /\ poll_interval = 2
                      /\ active_tests[i].mono_start = 0) => now = 6
          /\ timeout.elapsed >= test_timeout_sec
          /\ timeout.elapsed - poll_interval < test_timeout_sec
    /\ (Running /\ test_timeout_sec # NoLimit) =>
          \A i \in DOMAIN active_tests :
              now - active_tests[i].mono_start < test_timeout_sec

\* Scenario B: limit 5, interval 2, the unit observed at 0, killed at 6.
C4_Witness ==
    /\ pc = "done"
    /\ timeout.kind = "test"
    /\ timeout.limit = 5 /\ poll_interval = 2
    /\ timeout.elapsed = 6 /\ now = 6
    /\ \E i \in DOMAIN active_tests :
          active_tests[i].nodeid = timeout.nodeid /\ active_tests[i].mono_start = 0

\* C5: a total timeout fires at a tick where now - run_start >= T whose
\* previous tick was below T, the loop never sleeps past such a tick, the
\* report has kind total, no unit id, limit T and that elapsed time, and the
\* log gains exactly one synthesized Finished per active unit.
C5_TotalTimeoutAtFirstDueTick ==
    /\ timeout.kind = "total" =>
          /\ total_timeout_sec # NoLimit
          /\ timeout.nodeid = NoneStr
          /\ timeout.limit = total_timeout_sec
          /\ timeout.elapsed = now - run_start
          /\ timeout.elapsed >= total_timeout_sec
          /\ timeout.elapsed - poll_interval < total_timeout_sec
    /\ (Running /\ total_timeout_sec # NoLimit) => now - run_start < total_timeout_sec
    /\ (Returned /\ timeout.kind = "total") =>
          /\ Len(SynthEvents(log)) = Len(active_tests)
          /\ \A i \in DOMAIN active_tests :
                SynthEvents(log)[i].nodeid = active_tests[i].nodeid

\* Scenario C: only a total limit of 3, interval 1, one dangling unit.
C5_Witness ==
    /\ pc = "done"
    /\ test_timeout_sec = NoLimit /\ total_timeout_sec = 3 /\ poll_interval = 1
    /\ timeout.kind = "total" /\ timeout.elapsed = 3
    /\ Len(active_tests) = 1
    /\ Len(SynthEvents(log)) = 1

\* C6: a total timeout is reported only at a tick where no active unit has
\* reached the per-unit limit; when both limits are reached at one tick the
\* report is per-unit.
C6_PerUnitBeforeTotal ==
    /\ timeout.kind = "total" =>
          \/ test_timeout_sec = NoLimit
          \/ \A i \in DOMAIN active_tests :
                now - active_tests[i].mono_start < test_timeout_sec
    /\ (timeout # NoTimeout /\ test_timeout_sec # NoLimit
          /\ \E i \in DOMAIN active_tests :
                now - active_tests[i].mono_start >= test_timeout_sec)
        => timeout.kind = "test"

\* Both limits reached at the tick of a per-unit report.
C6_Witness ==
    /\ pc = "kill"
    /\ timeout.kind = "test"
    /\ total_timeout_sec # NoLimit
    /\ now - run_start >= total_timeout_sec

\* The record C7 expects for one entry of the active map at kill time: the
\* clock still shows the instant read after the wait.
ExpectedSynth(e) ==
    [type |-> "test_finished", nodeid |-> e.nodeid, outcome |-> "failed",
     when |-> "call", duration |-> clock - e.mono_start, start |-> e.started.start,
     stop |-> e.started.start + (clock - e.mono_start),
     location |-> e.started.location,
     longrepr |-> [text |-> IF timeout.kind = "test" THEN "per-test timeout"
                            ELSE "total run exceeded timeout",
                   limit |-> timeout.limit,
                   elapsed |-> clock - e.mono_start]]

RECURSIVE ExpectedLines(_)
ExpectedLines(active) ==
    IF active = <<>> THEN <<>>
    ELSE EncodeLine(ExpectedSynth(Head(active))) \o ExpectedLines(Tail(active))

\* C7: after a timeout kill the log ends with exactly one synthesized Finished
\* per unit of the active map, in map order, and holds no other synthesized
\* record; each is Failed, phase "call", start = the Started's start,
\* duration = clock after the wait - recorded instant, stop = start + duration,
\* location copied, and the wording of the policy that fired.
C7_SynthesizedPerActiveUnit ==
    (Returned /\ timeout # NoTimeout) =>
        /\ SynthEvents(log) = [i \in DOMAIN active_tests |-> ExpectedSynth(active_tests[i])]
        /\ Len(log) >= 3 * Len(active_tests)
        /\ SubSeq(log, Len(log) - 3 * Len(active_tests) + 1, Len(log))
              = ExpectedLines(active_tests)

\* A per-unit kill with two active units, the wait having taken a second.
C7_Witness ==
    /\ pc = "done"
    /\ timeout.kind = "test"
    /\ Len(active_tests) = 2
    /\ clock = now + 1
    /\ Len(SynthEvents(log)) = 2

\* C8 as stated: after a timeout kill, reading and resolving the whole log
\* gives every unit that was active at kill time a Failed result with the
\* monitor's timeout text, and no crash record of the resolver.
C8_TimeoutTextSurvivesResolve ==
    (pc = "resolved" /\ timeout # NoTimeout) =>
        \A i \in DOMAIN active_tests :
            /\ \E j \in DOMAIN resolved :
                  /\ resolved[j].nodeid = active_tests[i].nodeid
                  /\ resolved[j].outcome = "failed"
                  /\ resolved[j].longrepr.text \in TimeoutTexts
            /\ \A j \in DOMAIN resolved :
                  resolved[j].nodeid = active_tests[i].nodeid
                      => resolved[j].longrepr # CRASH_REPR

\* C9 as stated: on the kill path no failure of kill or wait leaves the
\* monitor as an exception; a failed wait gives the sentinel code, the
\* synthesized records and the report; a successful wait gives its code.
C9_KillPathNeverRaises ==
    /\ pc # "raised"
    /\ (Returned /\ waited = "raised") =>
          /\ exit_code = KillSentinel
          /\ timeout # NoTimeout
          /\ Len(SynthEvents(log)) = Len(active_tests)
    /\ (Returned /\ waited = "ok") => exit_code = returncode

\* C10: when poll() reports an exit code the monitor returns that code and no
\* report in that very step, leaves the log and the child alone, and has
\* never called kill, whatever the code and whatever units are active.
C10_ExitedReturnsCode ==
    /\ [](( Returned /\ timeout = NoTimeout) =>
            /\ exit_code = returncode
            /\ waited = "none"
            /\ SynthEvents(log) = <<>>)
    /\ [][(pc = "poll" /\ ~childAlive) =>
            /\ pc' = "done"
            /\ exit_code' = returncode
            /\ timeout' = NoTimeout
            /\ log' = log
            /\ waited' = "none"
            /\ UNCHANGED <<childVars, active_tests, file_offset, clock>>]_vars

\* A nonzero exit observed while a unit is still active.
C10_Witness ==
    /\ pc = "done"
    /\ timeout = NoTimeout
    /\ exit_code = 1
    /\ active_tests # <<>>

\* ------------------------------------------------ resolve_events, C11-C13
FinishedIndexes(evs) == {i \in DOMAIN evs : isFinished(evs[i])}
UnmatchedStartedIndexes(evs) ==
    {i \in DOMAIN evs : isStarted(evs[i]) /\ evs[i].nodeid \notin finished_nodeids(evs)}
IsCrashRecord(r) == r.longrepr = CRASH_REPR

\* C11: resolve_events emits every input Finished unchanged; for every
\* Started whose unit_id has no Finished anywhere in the input it emits a
\* Finished with the same unit_id, outcome failed, phase "call", duration 0,
\* start = stop = the Started's start, the Started's location and the fixed
\* crash text; a Started whose unit_id has a Finished emits nothing.
C11_FinishedAsIsAndCrashRecords ==
    pc = "resolved" =>
        /\ \A i \in FinishedIndexes(events) :
              \E k \in DOMAIN resolved : resolved[k] = events[i]
        /\ \A i \in UnmatchedStartedIndexes(events) :
              \E k \in DOMAIN resolved :
                  resolved[k] =
                      [type |-> "test_finished", nodeid |-> events[i].nodeid,
                       outcome |-> "failed", when |-> "call", duration |-> 0,
                       start |-> events[i].start, stop |-> events[i].start,
                       location |-> events[i].location,
                       longrepr |-> [text |-> "Test crashed (no result received)",
                                     limit |-> 0, elapsed |-> 0]]
        /\ \A k \in DOMAIN resolved :
              IsCrashRecord(resolved[k]) =>
                  resolved[k].nodeid \notin finished_nodeids(events)
        /\ Len(resolved) = Cardinality(FinishedIndexes(events))
                              + Cardinality(UnmatchedStartedIndexes(events))

\* A resolved list made from a matched Started, its Finished and a dangling
\* Started.
C11_Witness ==
    /\ pc = "resolved"
    /\ FinishedIndexes(events) # {}
    /\ UnmatchedStartedIndexes(events) # {}
    /\ \E i \in DOMAIN events :
          isStarted(events[i]) /\ events[i].nodeid \in finished_nodeids(events)
    /\ \E k \in DOMAIN resolved :
          IsCrashRecord(resolved[k]) /\ resolved[k].location # NoLocation

FirstIndex(seq, u) == Min({i \in DOMAIN seq : seq[i].nodeid = u})
UnitsOf(seq) == {seq[i].nodeid : i \in DOMAIN seq}

\* C12 as stated: the results are ordered by the first appearance of their
\* unit_id in the input: for any two units a and b with a result, if a's
\* first event precedes b's first event then a's (first) result precedes
\* b's (first) result.
C12_OrderOfFirstAppearance ==
    pc = "resolved" =>
        \A a, b \in UnitsOf(resolved) :
            FirstIndex(events, a) < FirstIndex(events, b)
                => FirstIndex(resolved, a) < FirstIndex(resolved, b)

\* The input events that put a result into the output, and the k-th of them.
Producers(evs) == FinishedIndexes(evs) \cup UnmatchedStartedIndexes(evs)
Producer(evs, k) ==
    CHOOSE i \in Producers(evs) : Cardinality({j \in Producers(evs) : j <= i}) = k

\* C12 amended: the results are in the order of the input events that
\* produce them: the k-th result belongs to the unit of the k-th event that
\* is a Finished or an unmatched Started.
C12_OrderOfProducingEvents ==
    pc = "resolved" =>
        /\ Len(resolved) = Cardinality(Producers(events))
        /\ \A k \in DOMAIN resolved :
              resolved[k].nodeid = events[Producer(events, k)].nodeid

\* Interleaved units: a starts first and b finishes first, so b's result
\* stands before a's.
C12_Witness ==
    /\ pc = "resolved"
    /\ Len(resolved) = 2
    /\ \E a, b \in UnitsOf(resolved) :
          /\ FirstIndex(events, a) < FirstIndex(events, b)
          /\ FirstIndex(resolved, b) < FirstIndex(resolved, a)

\* C13: no Finished is dropped: the Finished events of the input, repeated
\* and unstarted ones included, all stand in the output, and every other
\* result is the crash record of a Started whose unit_id has no Finished.
C13_NoFinishedDropped ==
    pc = "resolved" =>
        /\ SelectSeq(resolved, LAMBDA r : ~IsCrashRecord(r))
              = SelectSeq(events, isFinished)
        /\ \A k \in DOMAIN resolved :
              IsCrashRecord(resolved[k]) =>
                  \E i \in UnmatchedStartedIndexes(events) :
                      events[i].nodeid = resolved[k].nodeid

\* A resolved list whose input held a Finished without a Started, given
\* twice, next to a dangling Started.
C13_Witness ==
    /\ pc = "resolved"
    /\ \E i, j \in FinishedIndexes(events) :
          /\ i < j
          /\ events[i].nodeid = events[j].nodeid
          /\ events[i].nodeid \notin StartedIds(events)
    /\ UnmatchedStartedIndexes(events) # {}
    /\ Len(resolved) = 3

\* --------------------------------------------------- the tail, C14 and C15
\* C14: right after a tail, a second tail of the same path from the offset
\* it returned, with nothing written in between and at a later instant,
\* decodes no event, leaves active_tests as it is and returns that offset.
C14_TailAgainReadsNothing ==
    [][(pc = "tail" /\ pc' # pc) =>
          LET again == TailPath(log_exists', log', file_offset', active_tests', clock' + 1)
          IN /\ decode_lines(splitlines(SubSeq(log', file_offset' + 1, Len(log')))) = <<>>
             /\ again.active = active_tests'
             /\ again.offset = file_offset']_vars

\* A tail has just read a Started at an earlier instant than the next tick.
C14_Witness ==
    /\ pc = "poll"
    /\ file_offset = Len(log) /\ file_offset > 0
    /\ \E i \in DOMAIN active_tests : active_tests[i].mono_start < clock

\* C15: a tick that finds no file raises nothing, keeps the offset and
\* active_tests, and the monitor goes on (to the sleep, or to the kill when
\* the total limit is due); the offset is still 0 while the file is missing,
\* so the first tick that finds the file reads it from its first byte.
C15_MissingFileIsNoNews ==
    /\ []((~log_exists /\ pc \in {"poll", "tail", "kill"})
             => (file_offset = 0 /\ active_tests = <<>>))
    /\ [][(pc = "tail" /\ ~log_exists /\ pc' # pc) =>
             /\ pc' \in {"poll", "kill"}
             /\ pc' = "kill" => timeout'.kind = "total"
             /\ UNCHANGED <<file_offset, active_tests>>]_vars
    /\ [][(pc = "tail" /\ log_exists /\ file_offset = 0 /\ pc' # pc) =>
             /\ file_offset' = Len(log)
             /\ active_tests' = apply_events(<<>>, read_events(log), clock)]_vars

\* The monitor has slept after a tick that found no file and the child is
\* still running.
C15_Witness ==
    /\ ~log_exists
    /\ pc = "poll"
    /\ clock > 0
    /\ childAlive

\* ------------------------------------------------ read_events, C16 and C17
\* C16: read_events on a path without a file returns the empty list and
\* raises nothing, and the results resolved from it are the empty list.
C16_MissingFileReadsEmpty ==
    /\ []((pc = "resolved" /\ ~log_exists) => (events = <<>> /\ resolved = <<>>))
    /\ [][(pc = "done" /\ ~log_exists /\ pc' # pc) =>
             (pc' = "read" /\ events' = <<>>)]_vars

\* The child ended with a nonzero code before it created the file, and run()
\* has resolved.
C16_Witness ==
    /\ pc = "resolved"
    /\ ~log_exists
    /\ ~childAlive /\ exit_code # 0
    /\ resolved = <<>>

\* The lines of a file by the places of its newlines: a line ends at each
\* newline, and at the end of the file when the last byte is no newline.
Max(S) == CHOOSE x \in S : \A y \in S : y <= x
LineEnds(data) ==
    {i \in DOMAIN data : data[i] = NL}
        \cup (IF data # <<>> /\ data[Len(data)] # NL THEN {Len(data) + 1} ELSE {})
LineAt(data, e) ==
    SubSeq(data, Max({0} \cup {j \in DOMAIN data : data[j] = NL /\ j < e}) + 1, e - 1)

\* The line is the encoding of one Started or Finished, with nothing but
\* whitespace around it.
IsRecordLine(line) ==
    \E i \in DOMAIN line :
        /\ i + 1 \in DOMAIN line
        /\ line[i].part = "head" /\ line[i + 1].part = "tail"
        /\ line[i].ev = line[i + 1].ev
        /\ ValidObject(line[i].ev)
        /\ \A k \in DOMAIN line \ {i, i + 1} : line[k] = SP
RecordOf(line) == from_json(line[CHOOSE i \in DOMAIN line : line[i].part = "head"].ev)
RecordLineEnds(data) == {e \in LineEnds(data) : IsRecordLine(LineAt(data, e))}

StartedAt(evs, u) == {k \in DOMAIN evs : isStarted(evs[k]) /\ evs[k].nodeid = u}
FinishedAt(evs, u) == {k \in DOMAIN evs : isFinished(evs[k]) /\ evs[k].nodeid = u}

\* C18 as stated: whatever setup, call and teardown report, the plugin
\* writes for a unit one Started, before any Finished of the unit, and, once
\* the unit's reports are through, exactly one Finished.
C18_OneStartedOneFinished ==
    pc = "plugin" =>
        \A i \in DOMAIN Items :
            LET evs == read_events(log)
                S == StartedAt(evs, Items[i])
                F == FinishedAt(evs, Items[i])
            IN /\ Cardinality(S) <= 1
               /\ \A f \in F : \E st \in S : st < f
               /\ protocol.item > i => (Cardinality(S) = 1 /\ Cardinality(F) = 1)

\* ------------------------------------------------- run(), C19 and C20
\* C19 as stated: when an upload of one backend fails, run() still calls
\* upload on every backend and returns the monitor's exit code.
C19_UploadFailureIsolated ==
    (\E i \in DOMAIN uploaded : uploaded[i].outcome # "ok") =>
        /\ pc \in {"printed", "returned"}
        /\ pc = "returned" => (Len(uploaded) = Len(backends) /\ returned = exit_code)

\* C20: what run() returns is the code monitor_subprocess returned: the
\* child's own code after a normal exit, the code wait() gave after a kill,
\* KillSentinel when wait() raised; the log and the results do not enter.
C20_ReturnsMonitorCode ==
    pc = "returned" =>
        /\ returned = exit_code
        /\ timeout = NoTimeout => returned = returncode
        /\ waited = "ok" => returned = returncode
        /\ waited = "raised" => returned = KillSentinel

\* run() has returned 0 although a resolved result is a failure.
C20_Witness ==
    /\ pc = "returned"
    /\ returned = 0
    /\ \E k \in DOMAIN resolved : resolved[k].outcome = "failed"

\* ------------------------------------------------ run() and its file, C21
\* C21: the child is started only when the file exists; the file is read
\* only once monitor_subprocess has returned; the file is removed only on the
\* way out of run(), and it is gone on every way out, the raising ones too.
C21_FileLifecycle ==
    /\ [](pc \in {"returned", "raised"} => ~log_exists)
    /\ [][(~childAlive /\ childAlive') => (log_exists /\ log_exists')]_vars
    /\ [][(events' # events \/ pc' = "read") => (pc = "done" /\ log_exists)]_vars
    /\ [][(log_exists /\ ~log_exists') => pc' \in {"returned", "raised"}]_vars

\* run() has left by an exception of an upload, after the results were
\* resolved from a log that held events.
C21_Witness ==
    /\ pc = "raised"
    /\ ~log_exists
    /\ events # <<>>
    /\ \E i \in DOMAIN uploaded : uploaded[i].outcome = "raised"

\* ------------------------------------------------------ termination, C22
\* C22 as stated, in its finite-run form: with a total limit the loop makes
\* boundedly many ticks (it is not running any more once the limit plus one
\* interval has passed since run_start), and it leaves the loop only into
\* Exited or Killed, never by an exception.
C22_MonitorReturnsInBoundedTicks ==
    total_timeout_sec # NoLimit =>
        /\ pc \in {"poll", "tail"} => clock - run_start < total_timeout_sec + poll_interval
        /\ now - run_start < total_timeout_sec + poll_interval
        /\ pc # "raised"

\* ------------------------------------------------- resolving twice, C23
FullyMatched(evs) == StartedIds(evs) \subseteq finished_nodeids(evs)

IsForeign(line) ==
    LET l == strip(line)
    IN /\ Len(l) = 2
       /\ l[1].part = "head" /\ l[2].part = "tail"
       /\ l[1].ev = l[2].ev
       /\ ("type" \in DOMAIN l[1].ev => l[1].ev.type \notin {"test_started", "test_finished"})
WithoutForeign(data) == JoinLines(SelectSeq(splitlines(data), LAMBDA l : ~IsForeign(l)))
ForeignLines(data) == {k \in DOMAIN splitlines(data) : IsForeign(splitlines(data)[k])}
NewBytes == SubSeq(log, file_offset + 1, Len(log))

\* C25: a line whose discriminator is missing or unknown never ends the
\* monitor or the reader with an exception; read_events returns what it
\* returns of the file without those lines; a tail leaves the active map as
\* the other lines of the new bytes make it (unchanged when there are none),
\* takes the offset to the end of the file and the loop goes on.
C25_ForeignLinesSkipped ==
    /\ [](pc # "raised")
    /\ [](pc = "read" => events = read_events(WithoutForeign(log)))
    /\ [][(pc = "tail" /\ pc' # pc) =>
            /\ active_tests' = apply_events(active_tests,
                                            read_events(WithoutForeign(NewBytes)), clock)
            /\ (read_events(WithoutForeign(NewBytes)) = <<>> => active_tests' = active_tests)
            /\ file_offset' = Len(log)
            /\ pc' = "poll"]_vars
C25_Witness ==
    /\ pc = "read"
    /\ file_offset = Len(log)
    /\ \E k \in ForeignLines(log) : "type" \in DOMAIN splitlines(log)[k][1].ev
    /\ \E k \in ForeignLines(log) : "type" \notin DOMAIN splitlines(log)[k][1].ev
    /\ events # <<>>

\* The events a tail decodes from the bytes behind its offset, and the last
\* of them that speaks of unit u.
TailDecoded == read_events(NewBytes)
Mentions(evs, u) == {i \in DOMAIN evs : evs[i].nodeid = u}
LastOf(evs, u) == evs[Max(Mentions(evs, u))]
FinishedConsumed(u) ==
    \E i \in 1..file_offset :
        /\ log[i].part = "head"
        /\ ValidObject(log[i].ev)
        /\ isFinished(from_json(log[i].ev))
        /\ from_json(log[i].ev).nodeid = u

StartedPos(u) ==
    CHOOSE i \in DOMAIN log :
        /\ log[i].part = "head"
        /\ ValidObject(log[i].ev)
        /\ isStarted(from_json(log[i].ev))
        /\ from_json(log[i].ev).nodeid = u
OverLimit == {i \in DOMAIN active_tests : now - active_tests[i].mono_start >= test_timeout_sec}

\* C27: the active map keeps its units in the order their Started records
\* were observed; a per-test timeout report names a unit of the map with
\* now - recorded start >= limit, carries that difference as elapsed, and no
\* unit inserted before the named one has reached the limit at that tick.
C27_EarliestInsertedNamed ==
    /\ \A i, j \in DOMAIN active_tests :
          i < j => /\ active_tests[i].mono_start <= active_tests[j].mono_start
                   /\ StartedPos(active_tests[i].nodeid) < StartedPos(active_tests[j].nodeid)
    /\ timeout.kind = "test" =>
          \E i \in OverLimit :
              /\ active_tests[i].nodeid = timeout.nodeid
              /\ timeout.elapsed = now - active_tests[i].mono_start
              /\ timeout.limit = test_timeout_sec
              /\ \A j \in OverLimit : i <= j
C27_Witness ==
    /\ pc = "kill"
    /\ timeout.kind = "test"
    /\ Cardinality(OverLimit) = 2
    /\ timeout.nodeid = active_tests[1].nodeid
    /\ active_tests[2].nodeid = "a"

\* What the two timeout checks would report at the present instant.
LimitReached ==
    CheckTimeouts(active_tests, clock, run_start, test_timeout_sec, total_timeout_sec)
        # NoTimeout

\* C28: a liveness check that finds the child gone ends the monitor at once,
\* also when a limit has been reached at that instant: the child's exit code
\* is returned with no timeout report, nothing is waited for, nothing is
\* appended and the active map is left as it is; the units still active then
\* get their result from the resolver: their own Finished when the file
\* holds one, a crash record otherwise.
C28_ExitBeforeTimeouts ==
    /\ [][(pc = "poll" /\ ~childAlive /\ pc' # pc) =>
            /\ pc' = "done"
            /\ exit_code' = returncode
            /\ timeout' = NoTimeout
            /\ waited' = "none"
            /\ log' = log
            /\ active_tests' = active_tests
            /\ clock' = clock]_vars
    /\ []((Returned /\ timeout = NoTimeout) =>
            /\ waited = "none"
            /\ exit_code = returncode
            /\ SynthEvents(log) = <<>>)
    /\ []((pc = "resolved" /\ timeout = NoTimeout) =>
            \A i \in DOMAIN active_tests :
                LET u == active_tests[i].nodeid
                IN /\ u \in UnitsOf(resolved)
                   /\ u \notin finished_nodeids(events) =>
                         \E k \in DOMAIN resolved :
                             resolved[k] = CrashFinished(active_tests[i].started))
C28_Witness ==
    /\ pc = "resolved"
    /\ timeout = NoTimeout
    /\ LimitReached
    /\ \E i \in DOMAIN active_tests :
          /\ clock - active_tests[i].mono_start >= test_timeout_sec
          /\ test_timeout_sec # NoLimit
          /\ \E k \in DOMAIN resolved : resolved[k] = CrashFinished(active_tests[i].started)

\* The monitor has called proc.kill(); it has handed back a TimeoutResult.
KillCalled == pc = "raised" \/ waited # "none"
ReportReturned == Returned /\ timeout # NoTimeout
MonitorOver == pc \notin {"poll", "tail", "kill"}

\* C29 as stated: the monitor ends in Exited or Killed, and when it has
\* ended a timeout report has been returned if and only if kill was called.
C29_ReportIffKillCalled ==
    MonitorOver =>
        /\ Returned
        /\ KillCalled <=> ReportReturned

\* The parts of C29 that do hold: kill is called at most once, a returned
\* report means kill was called, and once the monitor has returned it checks,
\* tails, sleeps and appends no more.
C29_TerminalIsFinal ==
    /\ [](ReportReturned => KillCalled)
    /\ [][KillCalled => (pc' \notin {"poll", "tail", "kill"} /\ waited' = waited)]_vars
    /\ [][MonitorOver =>
            UNCHANGED <<monitorVars, childVars, clock, log>> /\ MonitorOver']_vars

NoLimits == test_timeout_sec = NoLimit /\ total_timeout_sec = NoLimit

\* C30: with neither limit set the monitor never reaches the kill, never
\* holds a timeout report and never waits for a killed child; the log grows
\* only by what the live child writes and holds no synthesized record; the
\* monitor returns only from a liveness check that found the child gone,
\* with the child's exit code.
C30_NoLimitsNoKill ==
    /\ [](NoLimits =>
            /\ pc \notin {"kill", "raised"}
            /\ timeout = NoTimeout
            /\ waited = "none"
            /\ SynthEvents(log) = <<>>
            /\ Returned => (~childAlive /\ exit_code = returncode))
    /\ [][(NoLimits /\ log' # log) =>
            /\ childAlive
            /\ progress' # progress \/ (pending # <<>> /\ pending' = <<>>)
            /\ pc' = pc]_vars
    /\ [][(NoLimits /\ pc # "done" /\ pc' = "done") =>
            (pc = "poll" /\ ~childAlive /\ exit_code' = returncode)]_vars
C30_Witness ==
    /\ NoLimits
    /\ pc = "done"
    /\ clock >= 5
    /\ active_tests # <<>>
    /\ exit_code = 1

\* C31 as stated: after a timeout kill, whatever the child left at the end
\* of the file, a later read_events returns every synthesized Finished the
\* monitor appended.
C31_AppendedRecordsAreRead ==
    (pc \in {"read", "resolved"} /\ timeout # NoTimeout) =>
        \A i \in DOMAIN active_tests :
            \E k \in DOMAIN events : events[k] = ExpectedSynth(active_tests[i])

\* The events of a list that speak of unit u, in order.
EventsOf(evs, u) == SelectSeq(evs, LAMBDA e : e.nodeid = u)
Restarted(evs, u) ==
    /\ Len(EventsOf(evs, u)) = 3
    /\ isStarted(EventsOf(evs, u)[1])
    /\ isFinished(EventsOf(evs, u)[2])
    /\ isStarted(EventsOf(evs, u)[3])

\* C32: for a unit whose events are a Started, a Finished and a second
\* Started with no further Finished, resolve_events returns that one
\* Finished as the unit's only result: the unfinished second attempt gets
\* no crash record.
C32_RestartNotTracked ==
    pc = "resolved" =>
        \A u \in Units :
            Restarted(events, u) => EventsOf(resolved, u) = <<EventsOf(events, u)[2]>>
C32_Witness ==
    /\ pc = "resolved"
    /\ Restarted(events, "a")
    /\ Len(events) = 4
    /\ isStarted(events[4])
    /\ events[4].nodeid = "b"
    /\ Len(resolved) = 2

\* C35: resolving the output of resolve_events again returns that output:
\* for every event list, matched or not, with repeated events and with
\* Finished events of units that never started.
C35_ResolveIsProjection ==
    pc = "resolved" =>
        /\ \A i \in DOMAIN resolved : isFinished(resolved[i])
        /\ resolve_events(resolved) = resolved
C35_Witness ==
    /\ pc = "resolved"
    /\ resolve_events(resolved) = resolved
    /\ \E i \in DOMAIN resolved : IsCrashRecord(resolved[i])
    /\ \E i, j \in DOMAIN events :
          i < j /\ isFinished(events[i]) /\ events[j] = events[i]
                /\ events[i].nodeid \notin StartedIds(events)

\* The items of the requests made so far, one batch after the other.
RECURSIVE Sent(_)
Sent(reqs) == IF reqs = <<>> THEN <<>> ELSE Head(reqs).batch \o Sent(Tail(reqs))
Expected == UploadData(backends[1], resolve_events(events))
UploadOver == pc \in {"uploaded", "raised"}
FullBatches(reqs) ==
    \A k \in DOMAIN reqs :
        /\ k < Len(reqs) => Len(reqs[k].batch) = BatchSize(backends[1])
        /\ Len(reqs[k].batch) \in 1..BatchSize(backends[1])

\* C33 as stated: when upload() is over, no request was made if the
\* credential is unset or nothing was resolved; otherwise the batches, in
\* order, are the resolved results each exactly once, every batch but the
\* last of the batch size, whatever way the requests ended.
C33_BatchesCoverResolved ==
    UploadOver =>
        IF ~credential \/ resolve_events(events) = <<>>
        THEN requests = <<>>
        ELSE Sent(requests) = Expected /\ FullBatches(requests)

\* The parts of C33 that do hold: the batches made so far are full batches
\* that together are a prefix of the converted resolved results; a request
\* that ends with a caught error is followed by the next batch; an upload
\* that returns has sent everything, or nothing without credential or
\* results.
C33_BatchesUnlessRaised ==
    /\ [](FullBatches(requests))
    /\ [](credential => Sent(requests) = SubSeq(Expected, 1, Len(Sent(requests))))
    /\ [](pc # "raised" => \A k \in DOMAIN requests : requests[k].outcome # "raised")
    /\ [](pc = "uploaded" =>
            IF ~credential \/ resolve_events(events) = <<>>
            THEN requests = <<>>
            ELSE Sent(requests) = Expected)
    /\ [](pc = "raised" => requests[Len(requests)].outcome = "raised")

\* The outcome the plugin is said to write for a report of phase `when`
\* with outcome o and tag x; NoneStr where it is said to write nothing.
ClaimedOutcome(when, o, x) ==
    IF when = "call"
    THEN (IF x THEN (IF o = "passed" THEN "xpassed" ELSE "xfailed") ELSE o)
    ELSE IF when = "setup" /\ o = "skipped" THEN (IF x THEN "xfailed" ELSE "skipped")
    ELSE IF o = "failed" THEN "error"
    ELSE NoneStr
Written == read_events(SubSeq(log', Len(log) + 1, Len(log')))

\* C34: for every phase report pytest hands to the plugin, the plugin
\* writes nothing when the report is a passing (or skipped) setup or
\* teardown that the table leaves out, and otherwise one Finished with the
\* report's unit and phase and the outcome of the table; a failure detail
\* is there only when that outcome is failed or error.
C34_OutcomeOfEachReport ==
    [][\A o \in ReportOutcomes, x \in BOOLEAN :
          (/\ pc = "plugin"
           /\ protocol.next \in {"setup", "call", "teardown"}
           /\ TaggedBy(protocol.next, o, x)
           /\ protocol' # protocol
           /\ log' = log \o pytest_runtest_logreport(
                                TestReport(Items[protocol.item], protocol.next, o, x)))
          => IF ClaimedOutcome(protocol.next, o, x) = NoneStr
             THEN log' = log
             ELSE /\ Len(Written) = 1
                  /\ isFinished(Written[1])
                  /\ Written[1].nodeid = Items[protocol.item]
                  /\ Written[1].when = protocol.next
                  /\ Written[1].outcome = ClaimedOutcome(protocol.next, o, x)
                  /\ Written[1].longrepr # NoRepr
                        => Written[1].outcome \in {"failed", "error"}]_vars
C34_Witness ==
    /\ \E k \in DOMAIN read_events(log) :
          /\ isFinished(read_events(log)[k])
          /\ read_events(log)[k].outcome = "xfailed"
          /\ read_events(log)[k].when = "setup"
    /\ \E k \in DOMAIN read_events(log) :
          /\ isFinished(read_events(log)[k])
          /\ read_events(log)[k].outcome = "xpassed"
    /\ \E k \in DOMAIN read_events(log) :
          /\ isFinished(read_events(log)[k])
          /\ read_events(log)[k].outcome = "error"
          /\ read_events(log)[k].when = "teardown"
          /\ read_events(log)[k].longrepr # NoRepr

\* C36: the log only grows; the offset never decreases and never exceeds
\* the length of the log; a tail takes the offset to the length it read and
\* applies to the active map exactly the events decoded from the bytes
\* between the old and the new offset, and nothing else touches the offset
\* or the map: the byte ranges of successive tails do not overlap, so no
\* record is applied twice.
C36_OffsetMonotoneRecordsOnce ==
    /\ [](file_offset <= Len(log))
    /\ [][/\ Len(log') >= Len(log)
           /\ SubSeq(log', 1, Len(log)) = log
           /\ file_offset' >= file_offset]_vars
    /\ [][(pc = "tail" /\ pc' # pc) =>
            /\ file_offset' = Len(log)
            /\ active_tests' = apply_events(active_tests, read_events(NewBytes), clock)]_vars
    /\ [][~(pc = "tail" /\ pc' # pc) => UNCHANGED <<file_offset, active_tests>>]_vars
C36_Witness ==
    /\ pc = "poll"
    /\ file_offset = Len(log)
    /\ Len(active_tests) = 2
    /\ active_tests[1].mono_start < active_tests[2].mono_start
    /\ FinishedConsumed(active_tests[1].nodeid) = FALSE
    /\ clock > active_tests[2].mono_start + 1

\* C37: a timeout report is of kind "test" or "total"; its elapsed is at
\* least its limit; a "test" report exists only with a per-test limit
\* configured, carries that limit and a unit id; a "total" report exists
\* only with a total limit configured, carries that limit and no unit id.
C37_ReportWellFormed ==
    timeout # NoTimeout =>
        /\ timeout.kind \in {"test", "total"}
        /\ timeout.elapsed >= timeout.limit
        /\ timeout.kind = "test" =>
              /\ test_timeout_sec # NoLimit
              /\ timeout.limit = test_timeout_sec
              /\ timeout.nodeid \in Units
        /\ timeout.kind = "total" =>
              /\ total_timeout_sec # NoLimit
              /\ timeout.limit = total_timeout_sec
              /\ timeout.nodeid = NoneStr
C37_Witness ==
    /\ ReportReturned
    /\ timeout.kind = "test"
    /\ timeout.elapsed > timeout.limit
    /\ total_timeout_sec # NoLimit
    /\ Len(active_tests) = 2

\* What a tail decoded holds no Finished, so that it removes no entry.
OnlyStarted(evs) == \A k \in DOMAIN evs : isStarted(evs[k])

\* C38: when a tail decodes a Started for a unit that is already active
\* (and removes no entry), the unit keeps its place in the map and the map
\* its length apart from units new to it, the unit's entry holds the clock
\* value of this tail and the newest Started, and the entries of units the
\* tail decoded nothing about are untouched; the elapsed time of a per-test
\* report is measured from the entry's instant.
C38_RestartResetsTimer ==
    /\ [][(pc = "tail" /\ pc' # pc /\ OnlyStarted(TailDecoded)) =>
            /\ \A i \in DOMAIN active_tests :
                  /\ i \in DOMAIN active_tests'
                  /\ active_tests'[i].nodeid = active_tests[i].nodeid
                  /\ IF Mentions(TailDecoded, active_tests[i].nodeid) # {}
                     THEN /\ active_tests'[i].mono_start = clock
                          /\ active_tests'[i].started
                                = LastOf(TailDecoded, active_tests[i].nodeid)
                     ELSE active_tests'[i] = active_tests[i]
            /\ Len(active_tests') =
                  Len(active_tests) + Cardinality(UnitsOf(TailDecoded) \ ActiveKeys(active_tests))]_vars
    /\ [](timeout.kind = "test" =>
            \E i \in DOMAIN active_tests :
                /\ active_tests[i].nodeid = timeout.nodeid
                /\ timeout.elapsed = now - active_tests[i].mono_start
                /\ \A j \in DOMAIN active_tests :
                      j # i => active_tests[j].nodeid # timeout.nodeid)
C38_Witness ==
    /\ pc = "kill"
    /\ timeout.kind = "test"
    /\ Len(active_tests) = 2
    /\ active_tests[1].mono_start > active_tests[2].mono_start
    /\ timeout.nodeid = active_tests[2].nodeid
    /\ now - active_tests[1].mono_start < test_timeout_sec

\* C39: the instant recorded for an active unit is a value of the monitor's
\* clock read at a tick, between the run's start and the latest tick, not
\* the wall-clock start the event carries; so the unit's elapsed time at the
\* latest tick is at most the run's, and so is the elapsed of a per-test
\* report.
C39_UnitElapsedAtMostTotal ==
    /\ \A i \in DOMAIN active_tests :
          /\ run_start <= active_tests[i].mono_start
          /\ active_tests[i].mono_start <= now
          /\ now - active_tests[i].mono_start <= now - run_start
          /\ active_tests[i].started.start = WallTime(active_tests[i].nodeid)
    /\ timeout.kind = "test" =>
          /\ timeout.elapsed <= now - run_start
          /\ timeout.elapsed >= 0
C39_Witness ==
    /\ pc = "kill"
    /\ timeout.kind = "test"
    /\ timeout.elapsed < now - run_start
    /\ \E i \in DOMAIN active_tests :
          /\ active_tests[i].nodeid = timeout.nodeid
          /\ active_tests[i].mono_start > run_start
          /\ active_tests[i].started.start # active_tests[i].mono_start

====
